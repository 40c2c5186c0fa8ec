---------------------------- MODULE LocalDirProofs ----------------------------
(***************************************************************************)
(* For any number of sessions and writers: the types of a folder's index   *)
(* and operations; that the index implements SessionStore; and, of a       *)
(* session whose operations do not cross, that its chunks have their files,*)
(* that what is saved as published is in the index, and that a delete      *)
(* leaves no file.                                                         *)
(***************************************************************************)
EXTENDS LocalDir, WellFoundedInduction, TLAPS

Jobs == [op : {"none", "register", "put", "delete"},
         at : {"load", "files", "save", "return"},
         chunk : Chunks \cup {NoChunk}, data : 0 .. MaxVersion,
         stale : BOOLEAN, copy : [Sessions -> Contract!Row], todo : SUBSET Ranges]

(* What goes with each step of an operation: a chunk that is registered for  *)
(* or put is one, and only a session that is in the index is deleted.        *)
JobOK(w, j) ==
    /\ j.op = "put" => j.data # 0
    /\ j.op \in {"register", "put"} \/ (j.op = "delete" /\ IsPublisher(w)) => j.chunk \in Chunks
    /\ j.at # "load" => j.op # "none"
    /\ j.at = "files" => j.op \in {"put", "delete"}
    /\ j.at = "return" => j.op = "put" \/ (j.op = "delete" /\ ~IsPublisher(w))
    /\ j.at \in {"files", "save"} /\ j.op = "delete" => j.copy[Of(w)].known

JobInv == \A w \in Writers : JobOK(w, job[w])

TypeInv == TypeOK /\ JobInv

USE LocalDirConstants

-----------------------------------------------------------------------------
(* Every writer works on a session.                                          *)
LEMMA WriterTypes == \A w \in Writers : Of(w) \in Sessions
  BY DEF Writers, Of

(* A chunk is a range and a version, and its range is one of Ranges.         *)
LEMMA ChunkTypes ==
    /\ \A c \in Chunks : /\ c.from \in 0 .. MaxLength /\ c.to \in 1 .. MaxLength
                         /\ c.version \in Versions /\ Range(c) \in Ranges
    /\ \A from, to, v : from \in 0 .. to - 1 /\ to \in 0 .. MaxLength /\ v \in Versions
         => [from |-> from, to |-> to, version |-> v] \in Chunks
  <1>1. ASSUME NEW c \in Chunks
        PROVE  /\ c.from \in 0 .. MaxLength /\ c.to \in 1 .. MaxLength
               /\ c.version \in Versions /\ Range(c) \in Ranges
    <2>1. PICK r \in Ranges, v \in Versions : c = [from |-> r.from, to |-> r.to, version |-> v]
      BY DEF Chunks
    <2>2. r \in [from : 0 .. MaxLength, to : 1 .. MaxLength] /\ r.from < r.to BY DEF Ranges
    <2> QED BY <2>1, <2>2 DEF Range, Ranges
  <1>2. ASSUME NEW from, NEW to, NEW v, from \in 0 .. to - 1, to \in 0 .. MaxLength, v \in Versions
        PROVE  [from |-> from, to |-> to, version |-> v] \in Chunks
    <2>1. from \in 0 .. MaxLength /\ to \in 1 .. MaxLength /\ from < to BY <1>2
    <2>2. [from |-> from, to |-> to] \in Ranges BY <2>1 DEF Ranges
    <2>3. [from |-> from, to |-> to, version |-> v]
            = [from |-> [from |-> from, to |-> to].from, to |-> [from |-> from, to |-> to].to, version |-> v]
      OBVIOUS
    <2> QED BY <1>2, <2>2, <2>3 DEF Chunks
  <1> QED BY <1>1, <1>2

(* The indexes are functions to rows, and the empty one is an index.         *)
LEMMA IndexTypes == NoIndex \in [Sessions -> Contract!Row] /\ NoJob \in Jobs
  BY DEF NoIndex, NoRow, Contract!Row, NoJob, Jobs, NoChunk

(* Whatever a writer goes on with is a step of an operation.                 *)
LEMMA AfterTypes ==
    ASSUME TypeInv, NEW w \in Writers, job[w].op # "none"
    PROVE  After(w) \in Jobs /\ JobOK(w, After(w)) /\ After(w).at \in {"load", "return"}
  <1>1. job[w] \in Jobs BY DEF TypeInv, TypeOK, Jobs
  <1>2. JobOK(w, job[w]) BY DEF TypeInv, JobInv
  <1>3. doc[Of(w)].version \in Versions BY WriterTypes DEF TypeInv, TypeOK
  <1>4. CASE job[w].op = "delete" /\ IsPublisher(w)
    <2>1. After(w) = [NoJob EXCEPT !.op = "register", !.chunk = job[w].chunk, !.data = 0]
      BY <1>4 DEF After
    <2> QED BY <1>1, <1>2, <1>4, <2>1, IndexTypes DEF JobOK, Jobs, NoJob
  <1>5. CASE job[w].op # "register" /\ ~(job[w].op = "delete" /\ IsPublisher(w))
    <2>1. After(w) = [job[w] EXCEPT !.at = "return", !.copy = NoIndex, !.stale = FALSE]
      BY <1>5 DEF After
    <2> QED BY <1>1, <1>2, <1>5, <2>1, IndexTypes DEF JobOK, Jobs
  <1>6. CASE job[w].op = "register"
    <2>1. \/ After(w) = [NoJob EXCEPT !.op = "put", !.chunk = job[w].chunk, !.data = doc[Of(w)].version]
          \/ After(w) = NoJob
      BY <1>6 DEF After
    <2>2. JobOK(w, NoJob) /\ NoJob.at = "load" BY DEF JobOK, NoJob
    <2>3. job[w].chunk \in Chunks BY <1>2, <1>6 DEF JobOK
    <2>4. CASE After(w) = [NoJob EXCEPT !.op = "put", !.chunk = job[w].chunk, !.data = doc[Of(w)].version]
      <3>1. doc[Of(w)].version \in 1 .. MaxVersion BY <1>3 DEF Versions
      <3>2. doc[Of(w)].version \in 0 .. MaxVersion /\ doc[Of(w)].version # 0 BY <3>1
      <3> DEFINE v == doc[Of(w)].version
                 c == job[w].chunk
      <3>3. ASSUME NEW j, j = [NoJob EXCEPT !.op = "put", !.chunk = c, !.data = v]
            PROVE  j \in Jobs /\ JobOK(w, j) /\ j.at = "load"
        <4>1. v \in 0 .. MaxVersion /\ v # 0 /\ c \in Chunks BY <2>3, <3>2
        <4> HIDE DEF v, c
        <4>2. j \in Jobs BY <3>3, <4>1, IndexTypes DEF Jobs
        <4>3. /\ j.op = "put" /\ j.data = v /\ j.chunk = c /\ j.at = "load"
          BY <3>3 DEF NoJob
        <4> QED BY <4>1, <4>2, <4>3 DEF JobOK
      <3> QED BY <2>4, <3>3
    <2> QED BY <2>1, <2>2, <2>4, IndexTypes
  <1> QED BY <1>4, <1>5, <1>6

(* What an operation makes of a row is a row.                                *)
LEMMA EffectTypes ==
    ASSUME NEW row \in Contract!Row, NEW c \in Chunks \cup {NoChunk}, NEW op \in {"register", "put", "delete"},
           op = "put" => c \in Chunks
    PROVE  Effect(op, row, c) \in Contract!Row
  BY DEF Effect, Contract!Row

(* A folder starts with the types.                                           *)
LEMMA InitTypes == Init => TypeInv
  <1> SUFFICES ASSUME Init PROVE TypeInv OBVIOUS
  <1>1. JobInv BY DEF Init, JobInv, JobOK, NoJob
  <1>2. job \in [Writers -> Jobs] /\ Contract!StoreTypeOK
    BY IndexTypes DEF Init, Contract!StoreTypeOK
  <1>3. doc \in [Sessions -> [version : Versions, length : 0 .. MaxLength]]
    BY DEF Init, Versions
  <1> QED BY <1>1, <1>2, <1>3 DEF Init, TypeInv, TypeOK, JobInv, JobOK, Jobs, Versions, NothingSaved

(* The documents, the index, the files and the operations keep their types.  *)
LEMMA TypeInvariant == Spec => []TypeInv
  <1>1. Init => TypeInv BY InitTypes
  <1>2. TypeInv /\ [Next]_vars => TypeInv'
    <2> SUFFICES ASSUME TypeInv, [Next]_vars PROVE TypeInv' OBVIOUS
    <2>0. /\ doc \in [Sessions -> [version : Versions, length : 0 .. MaxLength]]
          /\ saved \in [Sessions -> [version : Versions, offset : 0 .. MaxLength]]
          /\ index \in [Sessions -> Contract!Row]
          /\ files \in [Sessions -> [Ranges -> 0 .. MaxVersion]]
          /\ job \in [Writers -> Jobs] /\ mishaps \subseteq Mishaps
          /\ \A w \in Writers : JobOK(w, job[w])
      BY DEF TypeInv, TypeOK, Jobs, JobInv, Contract!StoreTypeOK
    <2>i. ASSUME doc' \in [Sessions -> [version : Versions, length : 0 .. MaxLength]],
                 saved' \in [Sessions -> [version : Versions, offset : 0 .. MaxLength]],
                 index' \in [Sessions -> Contract!Row],
                 files' \in [Sessions -> [Ranges -> 0 .. MaxVersion]],
                 job' \in [Writers -> Jobs], mishaps' \subseteq Mishaps,
                 \A w \in Writers : JobOK(w, job'[w])
          PROVE  TypeInv'
      BY <2>i DEF TypeInv, TypeOK, Jobs, JobInv, Contract!StoreTypeOK, JobOK
    <2>1. CASE UNCHANGED vars BY <2>0, <2>i, <2>1 DEF vars
    <2>2. ASSUME NEW s \in Sessions, Publish(s) PROVE TypeInv'
      <3> DEFINE w == <<s, "publish">>
      <3>1. w \in Writers BY DEF Writers
      <3>2. PICK op \in {"delete", "register"}, from \in 0 .. doc[s].length - 1 :
              job' = [job EXCEPT ![w] =
                [NoJob EXCEPT !.op = op, !.chunk = [from |-> from, to |-> doc[s].length,
                                                    version |-> doc[s].version]]]
        BY <2>2 DEF Publish
      <3>3. [from |-> from, to |-> doc[s].length, version |-> doc[s].version] \in Chunks
        BY <2>0, ChunkTypes
      <3> DEFINE j == [NoJob EXCEPT !.op = op, !.chunk = [from |-> from, to |-> doc[s].length,
                                                          version |-> doc[s].version]]
      <3>4. j \in Jobs /\ JobOK(w, j) BY <3>3, IndexTypes DEF Jobs, JobOK, NoJob
      <3>5. job' = [job EXCEPT ![w] = j] BY <3>2
      <3>6. job' \in [Writers -> Jobs] /\ \A v \in Writers : JobOK(v, job'[v])
        <4> HIDE DEF j, w
        <4> QED BY <2>0, <3>1, <3>4, <3>5
      <3>7. mishaps' \subseteq Mishaps BY <2>0, <2>2 DEF Publish, Suffers, Mishaps
      <3>8. UNCHANGED <<doc, saved, index, files>> BY <2>2 DEF Publish
      <3>9. /\ doc' \in [Sessions -> [version : Versions, length : 0 .. MaxLength]]
            /\ saved' \in [Sessions -> [version : Versions, offset : 0 .. MaxLength]]
            /\ index' \in [Sessions -> Contract!Row]
            /\ files' \in [Sessions -> [Ranges -> 0 .. MaxVersion]]
        BY <2>0, <3>8
      <3> QED BY <2>i, <3>6, <3>7, <3>9
    <2>3. ASSUME NEW s \in Edited, Unpublish(s) PROVE TypeInv'
      <3> DEFINE w == <<s, "unpublish">>
                 j == [NoJob EXCEPT !.op = "delete"]
      <3>1. w \in Writers BY DEF Writers
      <3>2. ~IsPublisher(w) BY DEF IsPublisher
      <3>4. j \in Jobs /\ JobOK(w, j) BY <3>2, IndexTypes DEF Jobs, JobOK, NoJob
      <3>5. job' = [job EXCEPT ![w] = j] BY <2>3 DEF Unpublish
      <3>6. job' \in [Writers -> Jobs] /\ \A v \in Writers : JobOK(v, job'[v])
        <4> HIDE DEF j, w
        <4> QED BY <2>0, <3>1, <3>4, <3>5
      <3>7. mishaps' \subseteq Mishaps BY <2>0, <2>3 DEF Unpublish, Suffers, Mishaps
      <3>8. UNCHANGED <<doc, saved, index, files>> BY <2>3 DEF Unpublish
      <3>9. /\ doc' \in [Sessions -> [version : Versions, length : 0 .. MaxLength]]
            /\ saved' \in [Sessions -> [version : Versions, offset : 0 .. MaxLength]]
            /\ index' \in [Sessions -> Contract!Row]
            /\ files' \in [Sessions -> [Ranges -> 0 .. MaxVersion]]
        BY <2>0, <3>8
      <3> QED BY <2>i, <3>6, <3>7, <3>9
    <2>4. ASSUME NEW s \in Edited, Grow(s) \/ Rewrite(s) PROVE TypeInv'
      <3>1. s \in Sessions OBVIOUS
      <3>2. CASE Grow(s)
        <4>1. doc' \in [Sessions -> [version : Versions, length : 0 .. MaxLength]]
          <5>1. doc[s] \in [version : Versions, length : 0 .. MaxLength] BY <2>0, <3>1
          <5>2. doc[s].length \in 0 .. MaxLength /\ doc[s].length < MaxLength BY <3>2, <5>1 DEF Grow
          <5>3. [doc[s] EXCEPT !.length = @ + 1] \in [version : Versions, length : 0 .. MaxLength]
            BY <5>1, <5>2
          <5>4. doc' = [doc EXCEPT ![s] = [doc[s] EXCEPT !.length = @ + 1]] BY <3>2 DEF Grow
          <5> QED BY <2>0, <5>3, <5>4
        <4>2. UNCHANGED <<saved, index, files, job, mishaps>>
          BY <3>2 DEF Grow
        <4>3. /\ saved' \in [Sessions -> [version : Versions, offset : 0 .. MaxLength]]
              /\ index' \in [Sessions -> Contract!Row]
              /\ files' \in [Sessions -> [Ranges -> 0 .. MaxVersion]]
              /\ job' \in [Writers -> Jobs] /\ mishaps' \subseteq Mishaps
              /\ \A w \in Writers : JobOK(w, job'[w])
          BY <2>0, <4>2
        <4> QED BY <2>i, <4>1, <4>3
      <3>3. CASE Rewrite(s)
        <4>1. doc' \in [Sessions -> [version : Versions, length : 0 .. MaxLength]]
          BY <2>0, <3>1, <3>3 DEF Rewrite, Versions
        <4>2. mishaps' \subseteq Mishaps BY <2>0, <3>3 DEF Rewrite, Suffers, Mishaps
        <4>3. UNCHANGED <<saved, index, files, job>>
          BY <3>3 DEF Rewrite
        <4> QED BY <2>0, <2>i, <4>1, <4>2, <4>3
      <3> QED BY <2>4, <3>2, <3>3
    <2>5. ASSUME NEW w \in Writers, Load(w) PROVE TypeInv'
      <3>1. PICK copy \in {index, NoIndex} :
              /\ \/ UNCHANGED mishaps
                 \/ mishaps' = mishaps \cup {"unread"}
              /\ \/ job' = [job EXCEPT ![w] = After(w)]
                 \/ /\ job[w].op = "delete" => copy[Of(w)].known
                    /\ job' = [job EXCEPT ![w] =
                         [@ EXCEPT !.at = IF job[w].op = "register" THEN "save" ELSE "files",
                                   !.copy = copy, !.stale = FALSE,
                                   !.todo = IF job[w].op = "delete" THEN ToRemove(copy[Of(w)]) ELSE {}]]
        BY <2>5 DEF Load, Suffers
      <3>2. copy \in [Sessions -> Contract!Row] BY <2>0, <3>1, IndexTypes
      <3>3. ToRemove(copy[Of(w)]) \subseteq Ranges
        <4>1. copy[Of(w)].chunks \subseteq Chunks BY <3>2, WriterTypes DEF Contract!Row
        <4> QED BY <4>1, ChunkTypes DEF ToRemove
      <3>4. job[w].op # "none" BY <2>5 DEF Load
      <3>5. CASE job' = [job EXCEPT ![w] = After(w)]
        <4>1. After(w) \in Jobs /\ JobOK(w, After(w)) BY <3>4, AfterTypes
        <4>2. job' \in [Writers -> Jobs] /\ \A v \in Writers : JobOK(v, job'[v])
          BY <2>0, <3>5, <4>1
        <4> QED BY <2>0, <2>i, <2>5, <3>1, <4>2 DEF Load, Mishaps
      <3>6. CASE /\ job[w].op = "delete" => copy[Of(w)].known
                 /\ job' = [job EXCEPT ![w] =
                         [@ EXCEPT !.at = IF job[w].op = "register" THEN "save" ELSE "files",
                                   !.copy = copy, !.stale = FALSE,
                                   !.todo = IF job[w].op = "delete" THEN ToRemove(copy[Of(w)]) ELSE {}]]
        <4> DEFINE j == [job[w] EXCEPT !.at = IF job[w].op = "register" THEN "save" ELSE "files",
                                       !.copy = copy, !.stale = FALSE,
                                       !.todo = IF job[w].op = "delete" THEN ToRemove(copy[Of(w)]) ELSE {}]
        <4>1. job[w] \in Jobs /\ JobOK(w, job[w]) BY <2>0
        <4>2. j \in Jobs BY <3>2, <3>3, <4>1 DEF Jobs
        <4>3. JobOK(w, j) BY <3>4, <3>6, <4>1 DEF JobOK, Jobs
        <4>4. job' = [job EXCEPT ![w] = j] BY <3>6
        <4>5. job' \in [Writers -> Jobs] /\ \A v \in Writers : JobOK(v, job'[v])
          <5> HIDE DEF j
          <5> QED BY <2>0, <4>2, <4>3, <4>4
        <4> QED BY <2>0, <2>i, <2>5, <3>1, <4>5 DEF Load, Mishaps
      <3> QED BY <3>1, <3>5, <3>6
    <2>6. ASSUME NEW w \in Writers, Files(w) PROVE TypeInv'
      <3> DEFINE s == Of(w)
      <3>0. s \in Sessions /\ job[w] \in Jobs /\ JobOK(w, job[w]) BY <2>0, WriterTypes
      <3>1. files' \in [Sessions -> [Ranges -> 0 .. MaxVersion]]
        <4>1. CASE UNCHANGED files BY <2>0, <4>1
        <4>2. ASSUME NEW r \in Ranges, NEW v \in 0 .. MaxVersion,
                     files' = [files EXCEPT ![s] = [files[s] EXCEPT ![r] = v]]
              PROVE  files' \in [Sessions -> [Ranges -> 0 .. MaxVersion]]
          BY <2>0, <4>2
        <4>3. CASE /\ job[w].op = "put"
                   /\ files' = [files EXCEPT ![s][Range(job[w].chunk)] = job[w].data]
          <5>1. Range(job[w].chunk) \in Ranges BY <3>0, <4>3, ChunkTypes DEF JobOK
          <5> QED BY <3>0, <4>2, <4>3, <5>1 DEF Jobs
        <4>4. CASE \E r \in job[w].todo : files' = [files EXCEPT ![s][r] = 0]
          <5>1. job[w].todo \subseteq Ranges BY <3>0 DEF Jobs
          <5>2. PICK r \in job[w].todo : files' = [files EXCEPT ![s][r] = 0] BY <4>4
          <5>3. r \in Ranges /\ 0 \in 0 .. MaxVersion BY <5>1
          <5>4. files' = [files EXCEPT ![s] = [files[s] EXCEPT ![r] = 0]] BY <5>2
          <5> QED BY <4>2, <5>3, <5>4
        <4> QED BY <2>6, <4>1, <4>3, <4>4 DEF Files
      <3>2. PICK j : /\ job' = [job EXCEPT ![w] = j]
                     /\ \/ j = [job[w] EXCEPT !.at = "save"]
                        \/ \E r \in job[w].todo : j = [job[w] EXCEPT !.todo = @ \ {r}]
        BY <2>6 DEF Files, Goto
      <3>3. j \in Jobs /\ JobOK(w, j)
        <4>1. job[w].at = "files" /\ job[w].op \in {"put", "delete"} BY <2>6 DEF Files
        <4> QED BY <3>0, <3>2, <4>1 DEF Jobs, JobOK
      <3>4. job' \in [Writers -> Jobs] /\ \A v \in Writers : JobOK(v, job'[v])
        BY <2>0, <3>2, <3>3
      <3>5. UNCHANGED <<doc, saved, index, mishaps>>
        BY <2>6 DEF Files
      <3> QED BY <2>0, <2>i, <3>1, <3>4, <3>5
    <2>7. ASSUME NEW w \in Writers, Save(w) PROVE TypeInv'
      <3> DEFINE s == Of(w)
      <3>0. s \in Sessions /\ job[w] \in Jobs /\ JobOK(w, job[w]) /\ job[w].at = "save"
        BY <2>0, <2>7, WriterTypes DEF Save
      <3>1. job[w].op \in {"register", "put", "delete"} BY <3>0 DEF JobOK, Jobs
      <3>2. job[w].copy \in [Sessions -> Contract!Row] BY <3>0 DEF Jobs
      <3>3. Effect(job[w].op, job[w].copy[s], job[w].chunk) \in Contract!Row
        BY <3>0, <3>1, <3>2, EffectTypes DEF Jobs, JobOK
      <3>4. index' = [job[w].copy EXCEPT ![s] = Effect(job[w].op, job[w].copy[s], job[w].chunk)]
        BY <2>7 DEF Save
      <3>5. index' \in [Sessions -> Contract!Row] BY <3>0, <3>2, <3>3, <3>4
      <3>6. After(w) \in Jobs /\ JobOK(w, After(w)) BY <3>1, AfterTypes
      <3>7. \A v \in Writers : /\ job'[v] = IF v = w THEN After(w) ELSE
                                    [job[v] EXCEPT !.stale = job[v].at \in {"files", "save"}]
                               /\ job' = [u \in Writers |-> job'[u]]
        BY <2>7 DEF Save
      <3>8. ASSUME NEW v \in Writers
            PROVE  /\ [job[v] EXCEPT !.stale = job[v].at \in {"files", "save"}] \in Jobs
                   /\ JobOK(v, [job[v] EXCEPT !.stale = job[v].at \in {"files", "save"}])
        <4>1. job[v] \in Jobs /\ JobOK(v, job[v]) BY <2>0
        <4>2. ASSUME NEW b \in BOOLEAN
              PROVE  [job[v] EXCEPT !.stale = b] \in Jobs /\ JobOK(v, [job[v] EXCEPT !.stale = b])
          BY <4>1 DEF Jobs, JobOK
        <4>3. (job[v].at \in {"files", "save"}) \in BOOLEAN OBVIOUS
        <4> HIDE DEF JobOK, Jobs
        <4>4. CASE job[v].at \in {"files", "save"}
          <5>1. (job[v].at \in {"files", "save"}) = TRUE BY <4>4
          <5> QED BY <4>2, <5>1
        <4>5. CASE ~(job[v].at \in {"files", "save"})
          <5>1. (job[v].at \in {"files", "save"}) = FALSE BY <4>5
          <5> QED BY <4>2, <5>1
        <4> QED BY <4>4, <4>5
      <3>9. job' \in [Writers -> Jobs] /\ \A v \in Writers : JobOK(v, job'[v])
        BY <3>6, <3>7, <3>8
      <3>10. mishaps' \subseteq Mishaps BY <2>0, <2>7 DEF Save, Suffers, Mishaps
      <3>11. UNCHANGED <<doc, saved, files>>
        BY <2>7 DEF Save
      <3> QED BY <2>0, <2>i, <3>5, <3>9, <3>10, <3>11
    <2>8. ASSUME NEW w \in Writers, Return(w) PROVE TypeInv'
      <3>0. Of(w) \in Sessions /\ job[w] \in Jobs /\ JobOK(w, job[w]) /\ job[w].at = "return"
        BY <2>0, <2>8, WriterTypes DEF Return
      <3>1. IsPublisher(w) => job[w].chunk \in Chunks BY <3>0 DEF JobOK
      <3>2. saved' \in [Sessions -> [version : Versions, offset : 0 .. MaxLength]]
        <4>1. NothingSaved \in [version : Versions, offset : 0 .. MaxLength]
          BY DEF NothingSaved, Versions
        <4>2. IsPublisher(w) => Checkpoint(job[w].chunk) \in [version : Versions, offset : 0 .. MaxLength]
          BY <3>1, ChunkTypes DEF Checkpoint
        <4> QED BY <2>0, <2>8, <3>0, <4>1, <4>2 DEF Return
      <3>3. JobOK(w, NoJob) BY DEF JobOK, NoJob
      <3>4. job' \in [Writers -> Jobs] /\ \A v \in Writers : JobOK(v, job'[v])
        BY <2>0, <2>8, <3>3, IndexTypes DEF Return
      <3>5. UNCHANGED <<doc, index, files, mishaps>>
        BY <2>8 DEF Return
      <3> QED BY <2>0, <2>i, <3>2, <3>4, <3>5
    <2>9. ASSUME NEW w \in Writers, End(w) PROVE TypeInv'
      <3>1. JobOK(w, NoJob) BY DEF JobOK, NoJob
      <3>2. job' \in [Writers -> Jobs] /\ \A v \in Writers : JobOK(v, job'[v])
        BY <2>0, <2>9, <3>1, IndexTypes DEF End
      <3>3. mishaps' \subseteq Mishaps BY <2>0, <2>9 DEF End, Mishaps
      <3>4. UNCHANGED <<doc, saved, index, files>>
        BY <2>9 DEF End
      <3> QED BY <2>0, <2>i, <3>2, <3>3, <3>4
    <2> QED BY <2>1, <2>2, <2>3, <2>4, <2>5, <2>6, <2>7, <2>8, <2>9 DEF Next
  <1> QED BY <1>1, <1>2, PTL DEF Spec

(* For any sessions, lengths and versions the folder keeps its types.        *)
THEOREM TypeCorrect == Spec => []TypeOK
  BY TypeInvariant, PTL DEF TypeInv

-----------------------------------------------------------------------------
(* The index implements the store                                           *)

(* A row that says anything is of a known session, and has one chunk at an   *)
(* offset.                                                                   *)
Sound(row) ==
    /\ row.known \/ row = NoRow
    /\ \A c, d \in row.chunks : c.from = d.from => c = d

PastInv ==
    /\ past \in [Sessions -> SUBSET Contract!Row]
    /\ \A s \in Sessions : NoRow \in past[s] /\ index[s] \in past[s]
    /\ \A s \in Sessions : \A row \in past[s] : Sound(row)

(* What a writer will write back: rows the sessions had, and those of now as *)
(* long as nobody wrote meanwhile and every index could be read.             *)
CopyOK(j) ==
    /\ \A s \in Sessions : j.copy[s] \in past[s]
    /\ ~j.stale /\ "unread" \notin mishaps => j.copy = index

CopyInv == \A w \in Writers : job[w].at \in {"files", "save"} => CopyOK(job[w])

StoreInv == TypeInv /\ PastInv /\ CopyInv

Interfered == mishaps \cap {"overlap", "unread"} # {}

(* An operation makes of a row one of the results the contract allows, and a *)
(* sound row of a sound one.                                                 *)
LEMMA EffectIsResult ==
    ASSUME NEW row \in Contract!Row, NEW op \in {"register", "put", "delete"}, NEW c,
           op = "put" => c \in Chunks, op = "delete" => row.known, Sound(row)
    PROVE  Effect(op, row, c) \in Contract!Results(row) /\ Sound(Effect(op, row, c))
  <1>1. CASE op = "register"
    <2>1. Effect(op, row, c) = [row EXCEPT !.known = TRUE, !.deleted = FALSE] BY <1>1 DEF Effect
    <2>2. Effect(op, row, c) \in Contract!Results(row)
      BY <2>1 DEF Contract!Results, Contract!Registered
    <2> QED BY <2>1, <2>2 DEF Sound, Contract!Row
  <1>2. CASE op = "put"
    <2>1. Effect(op, row, c) = [row EXCEPT !.known = TRUE,
                                           !.chunks = {d \in @ : d.from # c.from} \cup {c}]
      BY <1>2 DEF Effect
    <2>2. Effect(op, row, c) \in Contract!Results(row)
      BY <1>2, <2>1 DEF Contract!Results, Contract!WithChunk
    <2> QED BY <2>1, <2>2 DEF Sound, Contract!Row
  <1>3. CASE op = "delete"
    <2>1. Effect(op, row, c) = [row EXCEPT !.chunks = {}, !.deleted = TRUE] BY <1>3 DEF Effect
    <2>2. Contract!Deleted(row) = [row EXCEPT !.deleted = TRUE, !.chunks = {}]
      BY <1>3 DEF Contract!Deleted
    <2>3. Effect(op, row, c) \in Contract!Results(row)
      BY <2>1, <2>2 DEF Contract!Results, Contract!Row
    <2> QED BY <1>3, <2>1, <2>3 DEF Sound, Contract!Row
  <1> QED BY <1>1, <1>2, <1>3

(* Some operation leaves a sound row as it is, so that a reader who took the *)
(* index for an empty one is a step of the contract that changes no row.     *)
LEMMA SoundIsResult ==
    ASSUME NEW row \in Contract!Row, Sound(row)
    PROVE  row \in Contract!Results(row)
  <1>1. CASE ~row.known
    <2>1. Contract!Deleted(row) = row BY <1>1 DEF Contract!Deleted
    <2> QED BY <2>1 DEF Contract!Results
  <1>2. CASE row.known /\ ~row.deleted
    <2>1. Contract!Registered(row) = row BY <1>2 DEF Contract!Registered, Contract!Row
    <2> QED BY <2>1 DEF Contract!Results
  <1>3. CASE row.known /\ row.deleted /\ row.chunks = {}
    <2>1. Contract!Deleted(row) = row BY <1>3 DEF Contract!Deleted, Contract!Row
    <2> QED BY <2>1 DEF Contract!Results
  <1>4. CASE row.known /\ row.chunks # {}
    <2>1. PICK c \in row.chunks : TRUE BY <1>4
    <2>2. c \in Chunks BY <2>1 DEF Contract!Row
    <2>3. {d \in row.chunks : d.from # c.from} \cup {c} = row.chunks BY <2>1 DEF Sound
    <2>4. Contract!WithChunk(row, c) = row BY <1>4, <2>3 DEF Contract!WithChunk, Contract!Row
    <2> QED BY <2>2, <2>4 DEF Contract!Results
  <1> QED BY <1>1, <1>2, <1>3, <1>4 DEF Contract!Row

(* A step that leaves the index and its history alone, and interferes no     *)
(* more than before, is no step of the contract.                             *)
LEMMA Stutters ==
    ASSUME UNCHANGED <<index, past>>, Interfered' <=> Interfered
    PROVE  UNCHANGED Contract!storeVars
  <1>1. (mishaps \cap {"overlap", "unread"} # {})' = (mishaps \cap {"overlap", "unread"} # {})
    BY Zenon DEF Interfered
  <1> QED BY <1>1, Zenon DEF Contract!storeVars

(* Saving the copy of the index is an operation of the contract: on the rows *)
(* of now, or, when it interferes, on rows that were.                        *)
LEMMA SaveOperates ==
    ASSUME StoreInv, NEW w \in Writers, Save(w)
    PROVE  /\ Contract!StoreNext
           /\ past' \in [Sessions -> SUBSET Contract!Row]
           /\ \A s \in Sessions : /\ past[s] \subseteq past'[s] /\ index'[s] \in past'[s]
                                  /\ \A row \in past'[s] : Sound(row)
  <1> DEFINE s == Of(w)
             copy == job[w].copy
             row == Effect(job[w].op, copy[s], job[w].chunk)
  <1>0. s \in Sessions /\ job[w] \in Jobs /\ JobOK(w, job[w]) /\ job[w].at = "save"
    BY WriterTypes DEF Save, StoreInv, TypeInv, TypeOK, JobInv, Jobs
  <1>1. job[w].op \in {"register", "put", "delete"} BY <1>0 DEF JobOK, Jobs
  <1>2. CopyOK(job[w]) BY <1>0 DEF StoreInv, CopyInv
  <1>3. copy \in [Sessions -> Contract!Row] BY <1>0 DEF Jobs
  <1>4. past \in [Sessions -> SUBSET Contract!Row] BY DEF StoreInv, PastInv
  <1>5. row \in Contract!Results(copy[s]) /\ Sound(row)
    <2>1. Sound(copy[s]) BY <1>0, <1>2 DEF CopyOK, StoreInv, PastInv
    <2>2. job[w].op = "put" => job[w].chunk \in Chunks BY <1>0 DEF JobOK
    <2>3. job[w].op = "delete" => copy[s].known BY <1>0 DEF JobOK
    <2> QED BY <1>0, <1>1, <1>3, <2>1, <2>2, <2>3, EffectIsResult
  <1>6. row \in Contract!Row
    BY <1>0, <1>1, <1>3, EffectTypes DEF Jobs, JobOK
  <1>7. index' = [copy EXCEPT ![s] = row] BY DEF Save
  <1>8. past' = [t \in Sessions |-> past[t] \cup {index'[t]}] BY DEF Save
  <1>9. index'[s] = row /\ \A t \in Sessions \ {s} : index'[t] = copy[t]
    BY <1>0, <1>3, <1>7
  <1>10. \A t \in Sessions : copy[t] \in past[t] BY <1>2 DEF CopyOK
  <1>11. \A t \in Sessions : index'[t] \in Contract!Row /\ Sound(index'[t])
    <2> HIDE DEF s, copy, row
    <2>1. \A t \in Sessions \ {s} : index'[t] \in Contract!Row /\ Sound(index'[t])
      BY <1>4, <1>9, <1>10 DEF StoreInv, PastInv
    <2> QED BY <1>5, <1>6, <1>9, <2>1
  <1>12. /\ past' \in [Sessions -> SUBSET Contract!Row]
         /\ \A t \in Sessions : /\ past[t] \subseteq past'[t] /\ index'[t] \in past'[t]
                                /\ \A r \in past'[t] : Sound(r)
    <2>1. \A t \in Sessions : past'[t] = past[t] \cup {index'[t]} BY <1>8
    <2> QED BY <1>4, <1>8, <1>11, <2>1 DEF StoreInv, PastInv
  <1>13. mishaps' = IF job[w].stale THEN mishaps \cup {"overlap"} ELSE mishaps
    BY DEF Save, Suffers
  <1>14. Contract!Operate(s)
    <2> HIDE DEF s, copy, row
    <2>1. CASE Interfered'
      <3>1. (mishaps \cap {"overlap", "unread"} # {})' = TRUE BY <2>1, Zenon DEF Interfered
      <3> QED BY <1>0, <1>5, <1>8, <1>9, <1>10, <3>1 DEF Contract!Operate
    <2>2. CASE ~Interfered'
      <3>1. ~job[w].stale /\ "unread" \notin mishaps /\ mishaps' = mishaps
        BY <1>13, <2>2 DEF Interfered
      <3>2. copy = index BY <1>2, <3>1 DEF CopyOK, copy
      <3>3. (mishaps \cap {"overlap", "unread"} # {})' = FALSE BY <2>2, Zenon DEF Interfered
      <3>4. (mishaps \cap {"overlap", "unread"} # {}) = FALSE BY <2>2, <3>1, Zenon DEF Interfered
      <3> QED BY <1>0, <1>5, <1>8, <1>9, <3>2, <3>3, <3>4 DEF Contract!Operate
    <2> QED BY <2>1, <2>2
  <1> QED BY <1>0, <1>12, <1>14 DEF Contract!StoreNext

(* Reading an index that cannot be read changes no row.                      *)
LEMMA UnreadOperates ==
    ASSUME StoreInv, NEW w \in Writers, UNCHANGED <<index, past>>,
           mishaps' = mishaps \cup {"unread"}
    PROVE  [Contract!StoreNext]_(Contract!storeVars)
  <1> DEFINE s == Of(w)
  <1>1. CASE Interfered
    <2>1. Interfered' BY <1>1 DEF Interfered
    <2> QED BY <1>1, <2>1, Stutters
  <1>2. CASE ~Interfered
    <2>1. Interfered' BY DEF Interfered
    <2>2. (mishaps \cap {"overlap", "unread"} # {})' = TRUE BY <2>1, Zenon DEF Interfered
    <2>3. s \in Sessions BY WriterTypes
    <2>4. \A t \in Sessions : index[t] \in past[t] /\ index[t] \in Contract!Row /\ Sound(index[t])
      BY DEF StoreInv, PastInv
    <2>5. index[s] \in Contract!Results(index[s]) BY <2>3, <2>4, SoundIsResult
    <2>6. past' = [t \in Sessions |-> past[t] \cup {index'[t]}]
      BY <2>4 DEF StoreInv, PastInv
    <2>7. Contract!Operate(s) BY <2>2, <2>3, <2>4, <2>5, <2>6 DEF Contract!Operate
    <2> QED BY <2>3, <2>7 DEF Contract!StoreNext
  <1> QED BY <1>1, <1>2

(* A step that changes no index: the history stays, and so does what writers *)
(* hold of the index when they hold what they held.                          *)
LEMMA QuietStep ==
    ASSUME StoreInv, TypeInv', UNCHANGED <<index, past>>,
           "unread" \in mishaps => "unread" \in mishaps',
           \A w \in Writers : job'[w].at \in {"files", "save"} =>
             \/ /\ job[w].at \in {"files", "save"}
                /\ job'[w].copy = job[w].copy /\ job'[w].stale = job[w].stale
             \/ /\ \A t \in Sessions : job'[w].copy[t] \in past[t]
                /\ "unread" \notin mishaps' => job'[w].copy = index
    PROVE  StoreInv'
  <1>1. PastInv' BY DEF StoreInv, PastInv, Sound
  <1>2. ASSUME NEW w \in Writers, job'[w].at \in {"files", "save"} PROVE CopyOK(job[w])'
    BY <1>2 DEF StoreInv, CopyInv, CopyOK
  <1>3. CopyInv' BY <1>2 DEF CopyInv
  <1> QED BY <1>1, <1>3 DEF StoreInv

(* Every step keeps the invariant and is a step of the contract or none.     *)
LEMMA StoreStep ==
    ASSUME StoreInv, TypeInv', [Next]_vars
    PROVE  StoreInv' /\ [Contract!StoreNext]_(Contract!storeVars)
  <1>0. /\ \A w \in Writers : job[w] \in Jobs
        /\ job \in [Writers -> Jobs]
        /\ mishaps \subseteq Mishaps
        /\ index \in [Sessions -> Contract!Row]
    BY DEF StoreInv, TypeInv, TypeOK, Jobs, Contract!StoreTypeOK
  <1>q. ASSUME UNCHANGED <<index, past>>,
               Interfered' <=> Interfered, "unread" \in mishaps => "unread" \in mishaps',
               NEW w \in Writers, NEW j, job' = [job EXCEPT ![w] = j],
               j.at \in {"files", "save"} =>
                 \/ /\ job[w].at \in {"files", "save"}
                    /\ j.copy = job[w].copy /\ j.stale = job[w].stale
                 \/ /\ \A t \in Sessions : j.copy[t] \in past[t]
                    /\ "unread" \notin mishaps' => j.copy = index
        PROVE  StoreInv' /\ [Contract!StoreNext]_(Contract!storeVars)
    <2>1. \A v \in Writers : job'[v] = IF v = w THEN j ELSE job[v] BY <1>0, <1>q
    <2>2. StoreInv' BY <1>q, <2>1, QuietStep
    <2> QED BY <1>q, <2>2, Stutters
  <1>1. CASE UNCHANGED vars
    <2>1. UNCHANGED <<index, past, job, mishaps>> BY <1>1 DEF vars
    <2>2. StoreInv' BY <2>1, QuietStep
    <2>3. Interfered' <=> Interfered BY <2>1 DEF Interfered
    <2> QED BY <2>1, <2>2, <2>3, Stutters
  <1>2. ASSUME NEW s \in Sessions, Publish(s)
        PROVE  StoreInv' /\ [Contract!StoreNext]_(Contract!storeVars)
    <2> DEFINE w == <<s, "publish">>
    <2>1. w \in Writers BY DEF Writers
    <2>2. \E j : job' = [job EXCEPT ![w] = j] /\ j.at = "load"
      <3>1. PICK op, chunk : job' = [job EXCEPT ![w] = [NoJob EXCEPT !.op = op, !.chunk = chunk]]
        BY <1>2 DEF Publish
      <3>2. [NoJob EXCEPT !.op = op, !.chunk = chunk].at = "load" BY DEF NoJob
      <3> QED BY <3>1, <3>2
    <2>3. UNCHANGED <<index, past>> /\ mishaps' \in {mishaps, mishaps \cup {"crossed"}}
      BY <1>2 DEF Publish, Suffers
    <2>4. Interfered' <=> Interfered BY <2>3 DEF Interfered
    <2> HIDE DEF w
    <2> QED BY <1>q, <2>1, <2>2, <2>3, <2>4
  <1>3. ASSUME NEW s \in Edited, Unpublish(s)
        PROVE  StoreInv' /\ [Contract!StoreNext]_(Contract!storeVars)
    <2> DEFINE w == <<s, "unpublish">>
    <2>1. w \in Writers BY DEF Writers
    <2>2. \E j : job' = [job EXCEPT ![w] = j] /\ j.at = "load"
      <3>1. job' = [job EXCEPT ![w] = [NoJob EXCEPT !.op = "delete"]] BY <1>3 DEF Unpublish
      <3>2. [NoJob EXCEPT !.op = "delete"].at = "load" BY DEF NoJob
      <3> QED BY <3>1, <3>2
    <2>3. UNCHANGED <<index, past>> /\ mishaps' \in {mishaps, mishaps \cup {"crossed"}}
      BY <1>3 DEF Unpublish, Suffers
    <2>4. Interfered' <=> Interfered BY <2>3 DEF Interfered
    <2> HIDE DEF w
    <2> QED BY <1>q, <2>1, <2>2, <2>3, <2>4
  <1>4. ASSUME NEW s \in Edited, Grow(s) \/ Rewrite(s)
        PROVE  StoreInv' /\ [Contract!StoreNext]_(Contract!storeVars)
    <2>1. UNCHANGED <<index, past, job>> /\ mishaps' \in {mishaps, mishaps \cup {"crossed"}}
      BY <1>4 DEF Grow, Rewrite, Suffers
    <2>2. Interfered' <=> Interfered BY <2>1 DEF Interfered
    <2>3. StoreInv' BY <2>1, QuietStep
    <2> QED BY <2>1, <2>2, <2>3, Stutters
  <1>5. ASSUME NEW w \in Writers, Load(w)
        PROVE  StoreInv' /\ [Contract!StoreNext]_(Contract!storeVars)
    <2>1. PICK copy \in {index, NoIndex} :
            /\ IF copy = index THEN UNCHANGED mishaps
                               ELSE mishaps' = mishaps \cup {"unread"}
            /\ \/ job' = [job EXCEPT ![w] = After(w)]
               \/ job' = [job EXCEPT ![w] =
                    [@ EXCEPT !.at = IF job[w].op = "register" THEN "save" ELSE "files",
                              !.copy = copy, !.stale = FALSE,
                              !.todo = IF job[w].op = "delete" THEN ToRemove(copy[Of(w)]) ELSE {}]]
      BY <1>5 DEF Load, Suffers
    <2>2. UNCHANGED <<index, past>> /\ job[w].op # "none" BY <1>5 DEF Load
    <2>3. PICK j : /\ job' = [job EXCEPT ![w] = j]
                   /\ j.at \in {"files", "save"} => j.copy = copy
      <3>1. CASE job' = [job EXCEPT ![w] = After(w)]
        <4>1. After(w).at \in {"load", "return"} BY <2>2, AfterTypes DEF StoreInv
        <4> QED BY <3>1, <4>1
      <3>2. CASE job' = [job EXCEPT ![w] =
                    [@ EXCEPT !.at = IF job[w].op = "register" THEN "save" ELSE "files",
                              !.copy = copy, !.stale = FALSE,
                              !.todo = IF job[w].op = "delete" THEN ToRemove(copy[Of(w)]) ELSE {}]]
        <4> DEFINE j == [job[w] EXCEPT !.at = IF job[w].op = "register" THEN "save" ELSE "files",
                              !.copy = copy, !.stale = FALSE,
                              !.todo = IF job[w].op = "delete" THEN ToRemove(copy[Of(w)]) ELSE {}]
        <4>1. job' = [job EXCEPT ![w] = j] BY <3>2
        <4>2. j.copy = copy BY <1>0 DEF Jobs
        <4> HIDE DEF j
        <4> QED BY <4>1, <4>2
      <3> QED BY <2>1, <3>1, <3>2
    <2>4. \A t \in Sessions : copy[t] \in past[t] BY <2>1 DEF StoreInv, PastInv, NoIndex
    <2>5. "unread" \notin mishaps' => copy = index BY <2>1
    <2>6. \A v \in Writers : job'[v] = IF v = w THEN j ELSE job[v] BY <1>0, <2>3
    <2>7. StoreInv' BY <2>1, <2>2, <2>3, <2>4, <2>5, <2>6, QuietStep
    <2>8. CASE copy = index
      <3>1. Interfered' <=> Interfered BY <2>1, <2>8 DEF Interfered
      <3> QED BY <2>2, <2>7, <3>1, Stutters
    <2>9. CASE copy # index
      BY <2>1, <2>2, <2>7, <2>9, UnreadOperates
    <2> QED BY <2>8, <2>9
  <1>6. ASSUME NEW w \in Writers, Files(w)
        PROVE  StoreInv' /\ [Contract!StoreNext]_(Contract!storeVars)
    <2>1. PICK j : /\ job' = [job EXCEPT ![w] = j]
                   /\ j.copy = job[w].copy /\ j.stale = job[w].stale
      <3>1. CASE job' = [job EXCEPT ![w] = [job[w] EXCEPT !.at = "save"]]
        <4>1. [job[w] EXCEPT !.at = "save"].copy = job[w].copy
              /\ [job[w] EXCEPT !.at = "save"].stale = job[w].stale BY <1>0 DEF Jobs
        <4> QED BY <3>1, <4>1
      <3>2. ASSUME NEW r, job' = [job EXCEPT ![w] = [job[w] EXCEPT !.todo = @ \ {r}]]
            PROVE  \E j : job' = [job EXCEPT ![w] = j] /\ j.copy = job[w].copy /\ j.stale = job[w].stale
        <4>1. [job[w] EXCEPT !.todo = @ \ {r}].copy = job[w].copy
              /\ [job[w] EXCEPT !.todo = @ \ {r}].stale = job[w].stale BY <1>0 DEF Jobs
        <4> QED BY <3>2, <4>1
      <3>3. \/ job' = [job EXCEPT ![w] = [job[w] EXCEPT !.at = "save"]]
            \/ \E r \in job[w].todo : job' = [job EXCEPT ![w] = [job[w] EXCEPT !.todo = @ \ {r}]]
        BY <1>6 DEF Files, Goto
      <3> QED BY <3>1, <3>2, <3>3
    <2>2. UNCHANGED <<index, past, mishaps>> /\ job[w].at = "files" BY <1>6 DEF Files
    <2>3. Interfered' <=> Interfered BY <2>2 DEF Interfered
    <2> QED BY <1>q, <2>1, <2>2, <2>3
  <1>7. ASSUME NEW w \in Writers, Save(w)
        PROVE  StoreInv' /\ [Contract!StoreNext]_(Contract!storeVars)
    <2>1. /\ Contract!StoreNext
          /\ past' \in [Sessions -> SUBSET Contract!Row]
          /\ \A s \in Sessions : /\ past[s] \subseteq past'[s] /\ index'[s] \in past'[s]
                                 /\ \A row \in past'[s] : Sound(row)
      BY <1>7, SaveOperates
    <2>2. PastInv' BY <2>1 DEF StoreInv, PastInv, Sound
    <2>3. ASSUME NEW v \in Writers, job'[v].at \in {"files", "save"} PROVE CopyOK(job[v])'
      <3>1. v # w
        <4>1. job[w].op # "none" BY <1>7 DEF Save, StoreInv, TypeInv, JobInv, JobOK
        <4>2. After(w).at \in {"load", "return"} BY <4>1, AfterTypes DEF StoreInv
        <4>3. job'[w] = After(w) BY <1>7 DEF Save
        <4> QED BY <2>3, <4>2, <4>3
      <3>2. job'[v] = [job[v] EXCEPT !.stale = job[v].at \in {"files", "save"}]
        BY <1>7, <3>1 DEF Save
      <3>3. /\ job'[v].at = job[v].at /\ job'[v].copy = job[v].copy
            /\ job'[v].stale = (job[v].at \in {"files", "save"})
        BY <1>0, <3>2 DEF Jobs
      <3>4. job'[v].stale BY <2>3, <3>3
      <3>5. \A s \in Sessions : job[v].copy[s] \in past[s]
        BY <2>3, <3>3 DEF StoreInv, CopyInv, CopyOK
      <3> QED BY <2>1, <3>3, <3>4, <3>5 DEF CopyOK
    <2>4. CopyInv' BY <2>3 DEF CopyInv
    <2> QED BY <2>1, <2>2, <2>4 DEF StoreInv
  <1>8. ASSUME NEW w \in Writers, Return(w) \/ End(w)
        PROVE  StoreInv' /\ [Contract!StoreNext]_(Contract!storeVars)
    <2>1. job' = [job EXCEPT ![w] = NoJob] /\ NoJob.at = "load" BY <1>8 DEF Return, End, NoJob
    <2>2. /\ UNCHANGED <<index, past>>
          /\ mishaps' \in {mishaps, mishaps \cup {"unsaved"}, mishaps \cup {"broken"}}
      BY <1>8 DEF Return, End
    <2>3. Interfered' <=> Interfered BY <2>2 DEF Interfered
    <2> QED BY <1>q, <2>1, <2>2, <2>3
  <1> QED BY <1>1, <1>2, <1>3, <1>4, <1>5, <1>6, <1>7, <1>8 DEF Next

(* An empty folder is a store.                                               *)
LEMMA StoreStart == Init => StoreInv
  <1>1. ASSUME Init PROVE PastInv
    <2>1. /\ past = [s \in Sessions |-> {NoRow}] /\ index = NoIndex BY <1>1 DEF Init
    <2>2. NoRow \in Contract!Row /\ Sound(NoRow) BY DEF NoRow, Contract!Row, Sound
    <2> QED BY <2>1, <2>2 DEF PastInv, NoIndex
  <1>2. ASSUME Init PROVE CopyInv BY <1>2 DEF Init, CopyInv, NoJob
  <1>3. Init => TypeInv BY InitTypes
  <1> QED BY <1>1, <1>2, <1>3 DEF StoreInv

(* For any sessions and any number of writers: every step of the folder is   *)
(* one operation of the store on one session, or none; writers that overlap  *)
(* put rows back to what they were, and nothing worse.                       *)
THEOREM IndexIsStore == Spec => ContractKept
  <1>1. Init => StoreInv BY StoreStart
  <1>2. Init => Contract!StoreInit
    <2>1. ASSUME Init PROVE Contract!StoreInit
      <3>1. (mishaps \cap {"overlap", "unread"} # {}) = FALSE BY <2>1 DEF Init
      <3> QED BY <2>1, <3>1 DEF Init, Contract!StoreInit, NoIndex, NoRow, Contract!NoRow
    <2> QED BY <2>1
  <1>3. StoreInv /\ TypeInv' /\ [Next]_vars => StoreInv' /\ [Contract!StoreNext]_(Contract!storeVars)
    BY StoreStep
  <1> QED BY <1>1, <1>2, <1>3, TypeInvariant, PTL DEF Spec, ContractKept, Contract!StoreSpec

-----------------------------------------------------------------------------
(* What a session's one writer does to its files                            *)

Calm == mishaps \cap {"overlap", "broken", "crossed"} = {}
Read == Calm /\ "unread" \notin mishaps
Kept == Read /\ "unsaved" \notin mishaps

Works(w) == job[w].op # "none"
Publishes(w) == Works(w) /\ IsPublisher(w)
Writing(w) == job[w].op = "put" /\ job[w].at = "save"
Removing(w) == job[w].op = "delete" /\ job[w].at \in {"files", "save"}

(* Two operations on one session have crossed, and a document that changed   *)
(* under a run; bytes that are put are those of the document of the run.     *)
AloneInv ==
    /\ Calm => \A v, w \in Writers : Of(v) = Of(w) /\ Works(v) /\ Works(w) => v = w
    /\ Calm => \A w \in Writers : Publishes(w) => job[w].chunk.version = doc[Of(w)].version
    /\ Calm => \A w \in Writers : job[w].op = "put" => job[w].data = job[w].chunk.version
    /\ \A w \in Writers : job[w].op \in {"register", "put"} => IsPublisher(w)
    /\ \A w \in Writers : job[w].at \in {"files", "save"} /\ ~job[w].stale =>
         job[w].copy \in {index, NoIndex}

HasFile(s, c) == files[s][Range(c)] = c.version
Replaced(s, c) == \E w \in Writers : Of(w) = s /\ Writing(w) /\ Range(c) = Range(job[w].chunk)

(* The files of the index are there, but for those a delete removes and the  *)
(* one that an upload has replaced.                                          *)
FilesInv ==
    Calm => /\ \A s \in Sessions :
                 \/ \E w \in Writers : Of(w) = s /\ Removing(w)
                 \/ \A c \in index[s].chunks : HasFile(s, c) \/ Replaced(s, c)
            /\ \A w \in Writers : Writing(w) => files[Of(w)][Range(job[w].chunk)] = job[w].data

(* Mishaps are never forgotten.                                              *)
LEMMA MishapsGrow ==
    ASSUME [Next]_vars
    PROVE  mishaps \subseteq mishaps' /\ (Calm' => Calm) /\ (Read' => Read) /\ (Kept' => Kept)
  <1>1. mishaps \subseteq mishaps'
    <2>1. CASE UNCHANGED vars BY <2>1 DEF vars
    <2>2. ASSUME NEW s \in Sessions, Publish(s) PROVE mishaps \subseteq mishaps'
      BY <2>2 DEF Publish, Suffers
    <2>3. ASSUME NEW s \in Edited, Unpublish(s) \/ Grow(s) \/ Rewrite(s) PROVE mishaps \subseteq mishaps'
      BY <2>3 DEF Unpublish, Grow, Rewrite, Suffers
    <2>4. ASSUME NEW w \in Writers, Load(w) \/ Files(w) \/ Save(w) \/ Return(w) \/ End(w)
          PROVE  mishaps \subseteq mishaps'
      BY <2>4 DEF Load, Files, Save, Return, End, Suffers
    <2> QED BY <2>1, <2>2, <2>3, <2>4 DEF Next
  <1> QED BY <1>1 DEF Calm, Read, Kept

LEMMA JobFacts ==
    ASSUME StoreInv, NEW w \in Writers
    PROVE  /\ job[w] \in Jobs /\ JobOK(w, job[w]) /\ Of(w) \in Sessions
           /\ job \in [Writers -> Jobs]
  BY WriterTypes DEF StoreInv, TypeInv, TypeOK, JobInv, Jobs

(* What a writer goes on with.                                               *)
LEMMA AfterFacts ==
    ASSUME StoreInv, NEW w \in Writers, Works(w)
    PROVE  /\ job[w].op = "delete" /\ IsPublisher(w) =>
                /\ After(w).op = "register" /\ After(w).at = "load"
                /\ After(w).chunk = job[w].chunk
           /\ job[w].op = "put" \/ (job[w].op = "delete" /\ ~IsPublisher(w)) =>
                /\ After(w).op = job[w].op /\ After(w).at = "return"
                /\ After(w).chunk = job[w].chunk /\ After(w).data = job[w].data
           /\ job[w].op = "register" =>
                \/ After(w) = NoJob
                \/ /\ After(w).op = "put" /\ After(w).at = "load"
                   /\ After(w).chunk = job[w].chunk /\ After(w).data = doc[Of(w)].version
           /\ job[w].op \in {"register", "put", "delete"}
           /\ After(w).at \in {"load", "return"}
  <1>1. job[w] \in Jobs BY JobFacts
  <1>2. job[w].op \in {"register", "put", "delete"} BY <1>1 DEF Jobs, Works
  <1>3. CASE job[w].op = "delete" /\ IsPublisher(w)
    <2>1. After(w) = [NoJob EXCEPT !.op = "register", !.chunk = job[w].chunk, !.data = 0]
      BY <1>3 DEF After
    <2> QED BY <1>2, <1>3, <2>1 DEF NoJob
  <1>4. CASE job[w].op # "register" /\ ~(job[w].op = "delete" /\ IsPublisher(w))
    <2>1. After(w) = [job[w] EXCEPT !.at = "return", !.copy = NoIndex, !.stale = FALSE]
      BY <1>4 DEF After
    <2> QED BY <1>1, <1>2, <1>4, <2>1 DEF Jobs
  <1>5. CASE job[w].op = "register"
    <2>1. \/ After(w) = [NoJob EXCEPT !.op = "put", !.chunk = job[w].chunk, !.data = doc[Of(w)].version]
          \/ After(w) = NoJob
      BY <1>5 DEF After
    <2>2. CASE After(w) = NoJob BY <1>5, <2>2 DEF NoJob
    <2>3. CASE After(w) = [NoJob EXCEPT !.op = "put", !.chunk = job[w].chunk, !.data = doc[Of(w)].version]
      <3> DEFINE c == job[w].chunk
                 v == doc[Of(w)].version
      <3>1. After(w).op = "put" /\ After(w).at = "load" /\ After(w).chunk = c /\ After(w).data = v
        <4> HIDE DEF c, v
        <4> QED BY <2>3 DEF NoJob, c, v
      <3> QED BY <1>5, <3>1
    <2> QED BY <2>1, <2>2, <2>3
  <1> QED BY <1>2, <1>3, <1>4, <1>5

(* A run begins: alone, or it has crossed another operation.                 *)
LEMMA PublishFacts ==
    ASSUME StoreInv, NEW s \in Sessions, NEW w \in Writers, w = <<s, "publish">>, Publish(s)
    PROVE  /\ IsPublisher(w) /\ Of(w) = s /\ ~Works(w)
           /\ \A v \in Writers : v # w => job'[v] = job[v]
           /\ job'[w].at = "load" /\ job'[w].op \in {"delete", "register"}
           /\ job'[w].chunk.version = doc[s].version
           /\ job'[w].op = "delete" =>
                saved[s].version # doc[s].version /\ job'[w].chunk.from = 0
           /\ job'[w].op = "register" =>
                /\ StartsAt(s, job'[w].chunk.from) /\ job'[w].chunk.from \in Nat
                /\ saved[s].offset > 0 => saved[s].version = doc[s].version
           /\ Calm' => \A v \in Writers : Of(v) = s => ~Works(v)
           /\ UNCHANGED <<doc, saved, index, files>>
  <1>1. IsPublisher(w) /\ Of(w) = s BY DEF IsPublisher, Of
  <1>2. job \in [Writers -> Jobs] /\ job[w].op = "none" BY JobFacts DEF Publish
  <1> DEFINE rewritten == saved[s].offset > 0 /\ saved[s].version # doc[s].version
  <1>3. PICK from \in 0 .. doc[s].length - 1 :
          /\ IF rewritten THEN from = 0 ELSE StartsAt(s, from)
          /\ job' = [job EXCEPT ![w] =
               [NoJob EXCEPT !.op = IF rewritten THEN "delete" ELSE "register",
                             !.chunk = [from |-> from, to |-> doc[s].length, version |-> doc[s].version]]]
    BY DEF Publish
  <1> DEFINE op == IF rewritten THEN "delete" ELSE "register"
             c == [from |-> from, to |-> doc[s].length, version |-> doc[s].version]
             j == [NoJob EXCEPT !.op = op, !.chunk = c]
  <1>4. /\ \A v \in Writers : v # w => job'[v] = job[v]
        /\ job'[w] = j
    BY <1>2, <1>3
  <1>5. j.op = op /\ j.chunk = c /\ j.at = "load"
    <2> HIDE DEF op, c
    <2> QED BY DEF NoJob
  <1>6. c.from = from /\ c.version = doc[s].version OBVIOUS
  <1>7. op \in {"delete", "register"} /\ (op = "delete" <=> rewritten) OBVIOUS
  <1>8. doc[s] \in [version : Versions, length : 0 .. MaxLength] BY DEF StoreInv, TypeInv, TypeOK
  <1>9. from \in Nat BY <1>8
  <1>10. Calm' => Busy(s) = {} BY DEF Publish, Suffers, Calm
  <1>11. Calm' => \A v \in Writers : Of(v) = s => ~Works(v) BY <1>10 DEF Busy, Works
  <1>12. UNCHANGED <<doc, saved, index, files>> BY DEF Publish
  <1> HIDE DEF op, c, j
  <1>13. job'[w].at = "load" /\ job'[w].op = op /\ job'[w].chunk = c BY <1>4, <1>5
  <1> QED BY <1>1, <1>2, <1>3, <1>4, <1>6, <1>7, <1>9, <1>11, <1>12, <1>13 DEF Works

LEMMA UnpublishFacts ==
    ASSUME StoreInv, NEW s \in Edited, NEW w \in Writers, w = <<s, "unpublish">>, Unpublish(s)
    PROVE  /\ ~IsPublisher(w) /\ Of(w) = s /\ ~Works(w)
           /\ \A v \in Writers : v # w => job'[v] = job[v]
           /\ job'[w].at = "load" /\ job'[w].op = "delete"
           /\ Calm' => \A v \in Writers : Of(v) = s => ~Works(v)
           /\ UNCHANGED <<doc, saved, index, files>>
  <1>1. ~IsPublisher(w) /\ Of(w) = s BY DEF IsPublisher, Of
  <1>2. job \in [Writers -> Jobs] /\ job[w].op = "none" BY JobFacts DEF Unpublish
  <1>3. job' = [job EXCEPT ![w] = [NoJob EXCEPT !.op = "delete"]] BY DEF Unpublish
  <1>4. [NoJob EXCEPT !.op = "delete"].at = "load" /\ [NoJob EXCEPT !.op = "delete"].op = "delete"
    BY DEF NoJob
  <1>5. Calm' => Busy(s) = {} BY DEF Unpublish, Suffers, Calm
  <1>6. Calm' => \A v \in Writers : Of(v) = s => ~Works(v) BY <1>5 DEF Busy, Works
  <1> QED BY <1>1, <1>2, <1>3, <1>4, <1>6 DEF Unpublish, Works

(* The index is read, or taken for empty; there may be nothing to do.        *)
LEMMA LoadFacts ==
    ASSUME StoreInv, NEW w \in Writers, Load(w)
    PROVE  \E copy \in {index, NoIndex} :
             /\ Works(w) /\ job[w].at = "load"
             /\ \A v \in Writers : v # w => job'[v] = job[v]
             /\ UNCHANGED <<doc, saved, index, files>>
             /\ Read' => copy = index
             /\ \/ /\ job'[w] = After(w)
                   /\ \/ job[w].op = "delete" /\ ~copy[Of(w)].known
                      \/ job[w].op = "put" /\ job[w].chunk \in copy[Of(w)].chunks
                \/ /\ job'[w].op = job[w].op /\ job'[w].chunk = job[w].chunk
                   /\ job'[w].data = job[w].data /\ job'[w].copy = copy
                   /\ job'[w].at = IF job[w].op = "register" THEN "save" ELSE "files"
                   /\ job[w].op = "delete" =>
                        job'[w].todo = {Range(d) : d \in copy[Of(w)].chunks}
  <1>1. job[w] \in Jobs /\ job \in [Writers -> Jobs] BY JobFacts
  <1>2. PICK copy \in {index, NoIndex} :
          LET row == copy[Of(w)]
              idle == \/ job[w].op = "delete" /\ ~row.known
                      \/ job[w].op = "put" /\ There(row, job[w].chunk)
          IN  /\ IF copy = index THEN UNCHANGED <<mishaps, troubles>>
                                 ELSE Trouble /\ Suffers(TRUE, "unread")
              /\ job' = [job EXCEPT ![w] =
                   IF idle THEN After(w)
                   ELSE [@ EXCEPT !.at = IF job[w].op = "register" THEN "save" ELSE "files",
                                  !.copy = copy, !.stale = FALSE,
                                  !.todo = IF job[w].op = "delete" THEN ToRemove(row) ELSE {}]]
    BY DEF Load
  <1>3. /\ Works(w) /\ job[w].at = "load" /\ UNCHANGED <<doc, saved, index, files>>
    BY DEF Load, Works
  <1>4. Read' => copy = index BY <1>2 DEF Suffers, Read
  <1> DEFINE row == copy[Of(w)]
             idle == \/ job[w].op = "delete" /\ ~row.known
                     \/ job[w].op = "put" /\ job[w].chunk \in row.chunks
             at == IF job[w].op = "register" THEN "save" ELSE "files"
             todo == IF job[w].op = "delete" THEN ToRemove(row) ELSE {}
             j == [job[w] EXCEPT !.at = at, !.copy = copy, !.stale = FALSE, !.todo = todo]
  <1>5. job' = [job EXCEPT ![w] = IF idle THEN After(w) ELSE j] BY <1>2 DEF There
  <1>6. \A v \in Writers : v # w => job'[v] = job[v] BY <1>1, <1>5
  <1>7. CASE idle
    <2>1. job'[w] = After(w)
      <3> HIDE DEF j
      <3> QED BY <1>1, <1>5, <1>7
    <2> QED BY <1>3, <1>4, <1>6, <1>7, <2>1
  <1>8. CASE ~idle
    <2>1. job'[w] = j
      <3> HIDE DEF j
      <3> QED BY <1>1, <1>5, <1>8
    <2>2. /\ j.op = job[w].op /\ j.chunk = job[w].chunk /\ j.data = job[w].data
          /\ j.copy = copy /\ j.at = at /\ j.todo = todo
      <3> HIDE DEF at, todo
      <3> QED BY <1>1 DEF Jobs
    <2>3. job[w].op = "delete" => todo = {Range(d) : d \in row.chunks} BY DEF ToRemove
    <2> HIDE DEF j, todo
    <2> QED BY <1>3, <1>4, <1>6, <2>1, <2>2, <2>3
  <1> QED BY <1>7, <1>8

LEMMA FilesFacts ==
    ASSUME StoreInv, NEW w \in Writers, Files(w)
    PROVE  /\ Works(w) /\ job[w].at = "files" /\ job[w].op \in {"put", "delete"}
           /\ \A v \in Writers : v # w => job'[v] = job[v]
           /\ job'[w].op = job[w].op /\ job'[w].chunk = job[w].chunk
           /\ job'[w].data = job[w].data /\ job'[w].copy = job[w].copy
           /\ job'[w].stale = job[w].stale
           /\ UNCHANGED <<doc, saved, index>>
           /\ \/ /\ job[w].op = "put" /\ job'[w].at = "save"
                 /\ files' = [files EXCEPT ![Of(w)][Range(job[w].chunk)] = job[w].data]
              \/ /\ job[w].op = "delete" /\ job'[w].at = "files"
                 /\ \E r \in job[w].todo : /\ files' = [files EXCEPT ![Of(w)][r] = 0]
                                           /\ job'[w].todo = job[w].todo \ {r}
              \/ /\ job[w].op = "delete" /\ job'[w].at = "save"
                 /\ job[w].todo = {} /\ job'[w].todo = {} /\ files' = files
  <1>1. job[w] \in Jobs /\ job \in [Writers -> Jobs] /\ JobOK(w, job[w]) BY JobFacts
  <1>2. job[w].at = "files" /\ job[w].op \in {"put", "delete"} BY DEF Files
  <1>3. UNCHANGED <<doc, saved, index>> BY DEF Files
  <1>4. ASSUME NEW j \in {[job[w] EXCEPT !.at = "save"]}, job' = [job EXCEPT ![w] = j]
        PROVE  /\ \A v \in Writers : v # w => job'[v] = job[v]
               /\ job'[w].op = job[w].op /\ job'[w].chunk = job[w].chunk
               /\ job'[w].data = job[w].data /\ job'[w].copy = job[w].copy
               /\ job'[w].stale = job[w].stale /\ job'[w].at = "save"
               /\ job'[w].todo = job[w].todo
    BY <1>1, <1>4 DEF Jobs
  <1>5. ASSUME NEW r, job' = [job EXCEPT ![w].todo = @ \ {r}]
        PROVE  /\ \A v \in Writers : v # w => job'[v] = job[v]
               /\ job'[w].op = job[w].op /\ job'[w].chunk = job[w].chunk
               /\ job'[w].data = job[w].data /\ job'[w].copy = job[w].copy
               /\ job'[w].stale = job[w].stale /\ job'[w].at = job[w].at
               /\ job'[w].todo = job[w].todo \ {r}
    BY <1>1, <1>5 DEF Jobs
  <1>6. CASE /\ job[w].op = "put" /\ Goto(w, "save")
             /\ files' = [files EXCEPT ![Of(w)][Range(job[w].chunk)] = job[w].data]
    <2>1. job' = [job EXCEPT ![w] = [job[w] EXCEPT !.at = "save"]] BY <1>6 DEF Goto
    <2> QED BY <1>2, <1>3, <1>4, <1>6, <2>1 DEF Works
  <1>7. CASE /\ job[w].op = "delete"
             /\ \E r \in job[w].todo : /\ files' = [files EXCEPT ![Of(w)][r] = 0]
                                       /\ job' = [job EXCEPT ![w].todo = @ \ {r}]
    <2>1. PICK r \in job[w].todo : /\ files' = [files EXCEPT ![Of(w)][r] = 0]
                                   /\ job' = [job EXCEPT ![w].todo = @ \ {r}]
      BY <1>7
    <2>2. /\ \A v \in Writers : v # w => job'[v] = job[v]
          /\ job'[w].op = job[w].op /\ job'[w].chunk = job[w].chunk
          /\ job'[w].data = job[w].data /\ job'[w].copy = job[w].copy
          /\ job'[w].stale = job[w].stale /\ job'[w].at = job[w].at
          /\ job'[w].todo = job[w].todo \ {r}
      BY <1>5, <2>1
    <2> QED BY <1>2, <1>3, <1>7, <2>1, <2>2 DEF Works
  <1>8. CASE job[w].op = "delete" /\ job[w].todo = {} /\ UNCHANGED files /\ Goto(w, "save")
    <2>1. job' = [job EXCEPT ![w] = [job[w] EXCEPT !.at = "save"]] BY <1>8 DEF Goto
    <2> QED BY <1>2, <1>3, <1>4, <1>8, <2>1 DEF Works
  <1> QED BY <1>6, <1>7, <1>8 DEF Files

(* The index is written as it was read, with one row as the operation makes  *)
(* it.  As long as nothing overlapped, that is the index of now, or nothing. *)
LEMMA SaveFacts ==
    ASSUME StoreInv, AloneInv, NEW w \in Writers, Save(w)
    PROVE  /\ Works(w) /\ job[w].at = "save" /\ job'[w] = After(w)
           /\ \A v \in Writers : v # w =>
                /\ job'[v].op = job[v].op /\ job'[v].at = job[v].at
                /\ job'[v].chunk = job[v].chunk /\ job'[v].data = job[v].data
                /\ job'[v].copy = job[v].copy /\ job'[v].todo = job[v].todo
                /\ job[v].at \in {"files", "save"} => job'[v].stale
           /\ UNCHANGED <<doc, saved, files>>
           /\ \A t \in Sessions : t # Of(w) => index'[t] = job[w].copy[t]
           /\ index'[Of(w)] = Effect(job[w].op, job[w].copy[Of(w)], job[w].chunk)
           /\ Calm' => job[w].copy \in {index, NoIndex}
           /\ Read' => job[w].copy = index
  <1>1. /\ job[w] \in Jobs /\ JobOK(w, job[w]) /\ Of(w) \in Sessions
        /\ \A v \in Writers : job[v] \in Jobs
    BY JobFacts
  <1>2. job[w].at = "save" /\ UNCHANGED <<doc, saved, files>> BY DEF Save
  <1>3. Works(w) BY <1>1, <1>2 DEF JobOK, Works
  <1>4. job[w].copy \in [Sessions -> Contract!Row] BY <1>1 DEF Jobs
  <1>5. index' = [job[w].copy EXCEPT ![Of(w)] = Effect(job[w].op, job[w].copy[Of(w)], job[w].chunk)]
    BY DEF Save
  <1>6. /\ \A t \in Sessions : t # Of(w) => index'[t] = job[w].copy[t]
        /\ index'[Of(w)] = Effect(job[w].op, job[w].copy[Of(w)], job[w].chunk)
    BY <1>1, <1>4, <1>5
  <1>7. job' = [v \in Writers |->
             IF v = w THEN After(w)
             ELSE [job[v] EXCEPT !.stale = job[v].at \in {"files", "save"}]]
    BY DEF Save
  <1>8. job'[w] = After(w) BY <1>7
  <1>9. ASSUME NEW v \in Writers, v # w
        PROVE  /\ job'[v].op = job[v].op /\ job'[v].at = job[v].at
               /\ job'[v].chunk = job[v].chunk /\ job'[v].data = job[v].data
               /\ job'[v].copy = job[v].copy /\ job'[v].todo = job[v].todo
               /\ job[v].at \in {"files", "save"} => job'[v].stale
    <2>1. job'[v] = [job[v] EXCEPT !.stale = job[v].at \in {"files", "save"}]
      BY <1>7, <1>9
    <2> QED BY <1>1, <2>1 DEF Jobs
  <1>10. Calm' => ~job[w].stale BY DEF Save, Suffers, Calm
  <1>11. Calm' => job[w].copy \in {index, NoIndex} BY <1>2, <1>10 DEF AloneInv
  <1>12. Read' => job[w].copy = index
    <2>1. mishaps \subseteq mishaps' BY DEF Save, Suffers
    <2>2. Read' => "unread" \notin mishaps BY <2>1 DEF Read
    <2>3. Read' => ~job[w].stale BY <1>10 DEF Read
    <2>4. CopyOK(job[w]) BY <1>2 DEF StoreInv, CopyInv
    <2> QED BY <2>2, <2>3, <2>4 DEF CopyOK
  <1> QED BY <1>2, <1>3, <1>6, <1>8, <1>9, <1>11, <1>12

LEMMA ReturnFacts ==
    ASSUME StoreInv, NEW w \in Writers, Return(w)
    PROVE  /\ Works(w) /\ job[w].at = "return" /\ job'[w] = NoJob
           /\ \A v \in Writers : v # w => job'[v] = job[v]
           /\ UNCHANGED <<doc, index, files, mishaps>>
           /\ \A t \in Sessions : t # Of(w) => saved'[t] = saved[t]
           /\ IsPublisher(w) =>
                /\ job[w].op = "put" /\ job[w].chunk \in Chunks
                /\ saved'[Of(w)] = [version |-> job[w].chunk.version, offset |-> job[w].chunk.to]
           /\ ~IsPublisher(w) => saved'[Of(w)] = NothingSaved
  <1>1. /\ job[w] \in Jobs /\ JobOK(w, job[w]) /\ Of(w) \in Sessions /\ job \in [Writers -> Jobs]
    BY JobFacts
  <1>2. saved \in [Sessions -> [version : Versions, offset : 0 .. MaxLength]]
    BY DEF StoreInv, TypeInv, TypeOK
  <1> QED BY <1>1, <1>2 DEF Return, Works, JobOK, Checkpoint

LEMMA EndFacts ==
    ASSUME StoreInv, NEW w \in Writers, End(w)
    PROVE  /\ Works(w) /\ job'[w] = NoJob
           /\ \A v \in Writers : v # w => job'[v] = job[v]
           /\ UNCHANGED <<doc, saved, index, files>>
           /\ Calm' => job[w].at = "load" \/ (job[w].op = "put" /\ job[w].at = "return")
           /\ Kept' => job[w].at = "load"
  <1>1. job \in [Writers -> Jobs] BY JobFacts
  <1>2. mishaps' = mishaps \cup (IF job[w].op = "put" /\ job[w].at = "return" THEN {"unsaved"}
                                 ELSE IF job[w].at # "load" THEN {"broken"} ELSE {})
    BY DEF End
  <1>3. Calm' => job[w].at = "load" \/ (job[w].op = "put" /\ job[w].at = "return")
    BY <1>2 DEF Calm
  <1>4. Kept' => job[w].at = "load" BY <1>2, <1>3 DEF Kept, Read
  <1>5. job' = [job EXCEPT ![w] = NoJob] /\ Works(w) BY DEF End, Works
  <1>6. UNCHANGED <<doc, saved, index, files>> BY DEF End
  <1> QED BY <1>1, <1>3, <1>4, <1>5, <1>6

(* One that works has nothing to do with the idle.                           *)
LEMMA IdleFacts ==
    /\ NoJob.op = "none" /\ NoJob.at = "load" /\ NoJob.stale = FALSE
    /\ \A s \in Sessions : <<s, "publish">> \in Writers
    /\ \A s \in Edited : <<s, "unpublish">> \in Writers
  BY DEF NoJob, Writers

(* A step of a writer at work starts no other and changes no chunk, and puts *)
(* the bytes of the document for which the session was registered.           *)
LEMMA AloneStays ==
    ASSUME AloneInv, Calm' => Calm, doc' = doc,
           \A v \in Writers : Works(v)' => Works(v) /\ job'[v].chunk = job[v].chunk,
           \A v \in Writers : job'[v].op = "put" =>
             \/ job[v].op = "put" /\ job'[v].data = job[v].data
             \/ job[v].op = "register" /\ job'[v].data = doc[Of(v)].version,
           \A v \in Writers : job'[v].op = "register" => IsPublisher(v),
           \A v \in Writers : job'[v].at \in {"files", "save"} /\ ~job'[v].stale =>
             job'[v].copy \in {index', NoIndex}
    PROVE  AloneInv'
  <1>1. Calm' => \A v, w \in Writers : Of(v) = Of(w) /\ Works(v)' /\ Works(w)' => v = w
    BY DEF AloneInv
  <1>2. Calm' => \A w \in Writers : Publishes(w)' => job'[w].chunk.version = doc'[Of(w)].version
    BY DEF AloneInv, Publishes
  <1>3. \A w \in Writers : job'[w].op \in {"register", "put"} => IsPublisher(w)
    BY DEF AloneInv
  <1>4. Calm' => \A w \in Writers : job'[w].op = "put" => job'[w].data = job'[w].chunk.version
    <2> SUFFICES ASSUME Calm', NEW w \in Writers, job'[w].op = "put"
                 PROVE  job'[w].data = job'[w].chunk.version
      OBVIOUS
    <2>1. Works(w) /\ job'[w].chunk = job[w].chunk BY DEF Works
    <2>2. IsPublisher(w) BY <1>3
    <2>3. job[w].chunk.version = doc[Of(w)].version BY <2>1, <2>2 DEF AloneInv, Publishes
    <2> QED BY <2>1, <2>3 DEF AloneInv
  <1> QED BY <1>1, <1>2, <1>3, <1>4 DEF AloneInv

LEMMA AloneBegins ==
    ASSUME StoreInv, AloneInv, Calm' => Calm, NEW w \in Writers, job'[w].at = "load",
           UNCHANGED <<doc, index>>,
           \A v \in Writers : v # w => job'[v] = job[v],
           Calm' => \A v \in Writers : Of(v) = Of(w) => ~Works(v),
           \/ /\ IsPublisher(w) /\ job'[w].op \in {"delete", "register"}
              /\ job'[w].chunk.version = doc[Of(w)].version
           \/ ~IsPublisher(w) /\ job'[w].op = "delete"
    PROVE  AloneInv'
  <1>1. Calm' => \A u, v \in Writers : Of(u) = Of(v) /\ Works(u)' /\ Works(v)' => u = v
    BY DEF AloneInv, Works
  <1>2. Calm' => \A v \in Writers : Publishes(v)' => job'[v].chunk.version = doc'[Of(v)].version
    BY DEF AloneInv, Publishes, Works
  <1>3. \A v \in Writers : job'[v].op \in {"register", "put"} => IsPublisher(v)
    BY DEF AloneInv
  <1>4. Calm' => \A v \in Writers : job'[v].op = "put" => job'[v].data = job'[v].chunk.version
    BY DEF AloneInv
  <1>5. \A v \in Writers : job'[v].at \in {"files", "save"} /\ ~job'[v].stale =>
          job'[v].copy \in {index', NoIndex}
    BY DEF AloneInv
  <1> QED BY <1>1, <1>2, <1>3, <1>4, <1>5 DEF AloneInv

LEMMA AloneStep ==
    ASSUME StoreInv, AloneInv, [Next]_vars
    PROVE  AloneInv'
  <1>0. Calm' => Calm BY MishapsGrow
  <1>1. CASE UNCHANGED vars
    <2>1. UNCHANGED <<doc, index, job>> BY <1>1 DEF vars
    <2>2. \A v \in Writers : Works(v)' = Works(v) BY <2>1 DEF Works
    <2> QED BY <1>0, <2>1, <2>2, AloneStays DEF AloneInv
  <1>2. ASSUME NEW s \in Sessions, Publish(s) PROVE AloneInv'
    <2>1. PICK w \in Writers : w = <<s, "publish">> BY IdleFacts
    <2> QED BY <1>0, <1>2, <2>1, PublishFacts, AloneBegins
  <1>3. ASSUME NEW s \in Edited, Unpublish(s) PROVE AloneInv'
    <2>1. PICK w \in Writers : w = <<s, "unpublish">> BY IdleFacts
    <2> QED BY <1>0, <1>3, <2>1, UnpublishFacts, AloneBegins
  <1>4. ASSUME NEW s \in Edited, Grow(s) PROVE AloneInv'
    <2>1. doc \in [Sessions -> [version : Versions, length : 0 .. MaxLength]]
      BY DEF StoreInv, TypeInv, TypeOK
    <2>2. UNCHANGED <<index, job, mishaps>> /\ \A t \in Sessions : doc'[t].version = doc[t].version
      BY <1>4, <2>1 DEF Grow
    <2> QED BY <1>0, <2>2, WriterTypes DEF AloneInv, Works, Publishes
  <1>5. ASSUME NEW s \in Edited, Rewrite(s) PROVE AloneInv'
    <2>1. doc \in [Sessions -> [version : Versions, length : 0 .. MaxLength]]
      BY DEF StoreInv, TypeInv, TypeOK
    <2>2. UNCHANGED <<index, job>> /\ \A t \in Sessions : t # s => doc'[t] = doc[t]
      BY <1>5, <2>1 DEF Rewrite
    <2>3. Calm' => job[<<s, "publish">>].op = "none" BY <1>5 DEF Rewrite, Suffers, Calm
    <2>4. \A w \in Writers : Of(w) = s /\ IsPublisher(w) => w = <<s, "publish">>
      BY DEF Writers, Of, IsPublisher
    <2>5. Calm' => \A w \in Writers : Publishes(w) => Of(w) # s
      BY <2>3, <2>4 DEF Publishes, Works
    <2> QED BY <1>0, <2>2, <2>5, WriterTypes DEF AloneInv, Works, Publishes
  <1>6. ASSUME NEW w \in Writers, Load(w) PROVE AloneInv'
    <2>1. PICK copy \in {index, NoIndex} :
             /\ Works(w) /\ job[w].at = "load"
             /\ \A v \in Writers : v # w => job'[v] = job[v]
             /\ UNCHANGED <<doc, saved, index, files>>
             /\ \/ /\ job'[w] = After(w)
                   /\ job[w].op \in {"put", "delete"}
                \/ /\ job'[w].op = job[w].op /\ job'[w].chunk = job[w].chunk
                   /\ job'[w].data = job[w].data /\ job'[w].copy = copy
      BY <1>6, LoadFacts
    <2>2. /\ Works(w)' => job'[w].chunk = job[w].chunk
          /\ job'[w].op = "put" => \/ job[w].op = "put" /\ job'[w].data = job[w].data
                                   \/ job[w].op = "register" /\ job'[w].data = doc[Of(w)].version
          /\ job'[w].op = "register" => IsPublisher(w)
          /\ job'[w].at \in {"files", "save"} => job'[w].copy \in {index, NoIndex}
      BY <2>1, AfterFacts DEF AloneInv, Works
    <2>3. \A v \in Writers : Works(v)' => Works(v) /\ job'[v].chunk = job[v].chunk
      BY <2>1, <2>2 DEF Works
    <2>4. \A v \in Writers : job'[v].op = "put" =>
             \/ job[v].op = "put" /\ job'[v].data = job[v].data
             \/ job[v].op = "register" /\ job'[v].data = doc[Of(v)].version
      BY <2>1, <2>2
    <2>5. \A v \in Writers : job'[v].op = "register" => IsPublisher(v)
      BY <2>1, <2>2 DEF AloneInv
    <2>6. \A v \in Writers : job'[v].at \in {"files", "save"} /\ ~job'[v].stale =>
             job'[v].copy \in {index', NoIndex}
      BY <2>1, <2>2 DEF AloneInv
    <2> QED BY <1>0, <2>1, <2>3, <2>4, <2>5, <2>6, AloneStays
  <1>7. ASSUME NEW w \in Writers, Files(w) PROVE AloneInv'
    <2>1. /\ Works(w) /\ job[w].at = "files"
          /\ \A v \in Writers : v # w => job'[v] = job[v]
          /\ job'[w].op = job[w].op /\ job'[w].chunk = job[w].chunk
          /\ job'[w].data = job[w].data /\ job'[w].copy = job[w].copy
          /\ job'[w].stale = job[w].stale
          /\ UNCHANGED <<doc, saved, index>>
      BY <1>7, FilesFacts
    <2>2. \A v \in Writers : /\ Works(v)' = Works(v) /\ job'[v].chunk = job[v].chunk
                             /\ job'[v].op = job[v].op /\ job'[v].data = job[v].data
      BY <2>1 DEF Works
    <2>3. \A v \in Writers : job'[v].at \in {"files", "save"} /\ ~job'[v].stale =>
             job'[v].copy \in {index', NoIndex}
      BY <2>1 DEF AloneInv
    <2>4. \A v \in Writers : job'[v].op = "register" => IsPublisher(v)
      BY <2>2 DEF AloneInv
    <2> QED BY <1>0, <2>1, <2>2, <2>3, <2>4, AloneStays
  <1>8. ASSUME NEW w \in Writers, Save(w) PROVE AloneInv'
    <2>1. /\ Works(w) /\ job'[w] = After(w) /\ UNCHANGED <<doc, saved, files>>
          /\ \A v \in Writers : v # w =>
                /\ job'[v].op = job[v].op /\ job'[v].at = job[v].at
                /\ job'[v].chunk = job[v].chunk /\ job'[v].data = job[v].data
                /\ job[v].at \in {"files", "save"} => job'[v].stale
      BY <1>8, SaveFacts
    <2>2. /\ Works(w)' => job'[w].chunk = job[w].chunk
          /\ job'[w].op = "put" => \/ job[w].op = "put" /\ job'[w].data = job[w].data
                                   \/ job[w].op = "register" /\ job'[w].data = doc[Of(w)].version
          /\ job'[w].op = "register" => IsPublisher(w)
          /\ job'[w].at \notin {"files", "save"}
      BY <2>1, AfterFacts, IdleFacts DEF Works
    <2>3. \A v \in Writers : Works(v)' => Works(v) /\ job'[v].chunk = job[v].chunk
      BY <2>1, <2>2 DEF Works
    <2>4. \A v \in Writers : job'[v].op = "put" =>
             \/ job[v].op = "put" /\ job'[v].data = job[v].data
             \/ job[v].op = "register" /\ job'[v].data = doc[Of(v)].version
      BY <2>1, <2>2
    <2>5. \A v \in Writers : job'[v].op = "register" => IsPublisher(v)
      BY <2>1, <2>2 DEF AloneInv
    <2>6. \A v \in Writers : job'[v].at \in {"files", "save"} => job'[v].stale
      BY <2>1, <2>2
    <2> QED BY <1>0, <2>1, <2>3, <2>4, <2>5, <2>6, AloneStays
  <1>9. ASSUME NEW w \in Writers, Return(w) \/ End(w) PROVE AloneInv'
    <2>1. /\ Works(w) /\ job'[w] = NoJob /\ UNCHANGED <<doc, index>>
          /\ \A v \in Writers : v # w => job'[v] = job[v]
      BY <1>9, ReturnFacts, EndFacts
    <2>2. \A v \in Writers : Works(v)' => Works(v) /\ job'[v] = job[v]
      BY <2>1, IdleFacts DEF Works
    <2>3. \A v \in Writers : job'[v].op \in {"register", "put"} => job'[v] = job[v]
      BY <2>1, IdleFacts
    <2>4. \A v \in Writers : job'[v].at \in {"files", "save"} => job'[v] = job[v]
      BY <2>1, IdleFacts
    <2> QED BY <1>0, <2>1, <2>2, <2>3, <2>4, AloneStays DEF AloneInv
  <1> QED BY <1>1, <1>2, <1>3, <1>4, <1>5, <1>6, <1>7, <1>8, <1>9 DEF Next

LEMMA ChunksOfRows ==
    ASSUME StoreInv
    PROVE  /\ \A s \in Sessions : index[s].chunks \subseteq Chunks
           /\ \A s \in Sessions : NoIndex[s].chunks = {}
           /\ \A c \in Chunks : Range(c) \in Ranges /\ (\A d \in Chunks : Range(c) = Range(d) => c.from = d.from)
           /\ files \in [Sessions -> [Ranges -> 0 .. MaxVersion]]
  BY ChunkTypes DEF StoreInv, TypeInv, TypeOK, Contract!StoreTypeOK, Contract!Row, NoIndex, NoRow, Range

(* A step of no writer that replaces or removes files, and of none that      *)
(* writes the index.                                                         *)
LEMMA FilesStay ==
    ASSUME FilesInv, Calm' => Calm, UNCHANGED <<index, files>>,
           Calm' => \A v \in Writers : /\ Writing(v)' => Writing(v)
                                       /\ Writing(v) => Writing(v)' /\ job'[v].chunk = job[v].chunk
                                                        /\ job'[v].data = job[v].data
                                       /\ Removing(v) => Removing(v)'
    PROVE  FilesInv'
  <1> SUFFICES ASSUME Calm' 
               PROVE  /\ \A s \in Sessions :
                           \/ \E w \in Writers : Of(w) = s /\ Removing(w)'
                           \/ \A c \in index[s].chunks : HasFile(s, c) \/ Replaced(s, c)'
                      /\ \A w \in Writers : Writing(w)' => files[Of(w)][Range(job'[w].chunk)] = job'[w].data
    BY DEF FilesInv, HasFile
  <1>1. ASSUME NEW s \in Sessions, NEW c, Replaced(s, c) PROVE Replaced(s, c)'
    BY <1>1 DEF Replaced
  <1> QED BY <1>1 DEF FilesInv

LEMMA FilesReplaced ==
    ASSUME StoreInv, AloneInv, FilesInv, Calm', Calm, NEW w \in Writers, Files(w), job[w].op = "put"
    PROVE  FilesInv'
  <1>1. /\ Works(w) /\ job[w].at = "files" /\ \A v \in Writers : v # w => job'[v] = job[v]
        /\ job'[w].op = "put" /\ job'[w].chunk = job[w].chunk /\ job'[w].data = job[w].data
        /\ index' = index /\ job'[w].at = "save"
        /\ files' = [files EXCEPT ![Of(w)][Range(job[w].chunk)] = job[w].data]
    BY FilesFacts
  <1>2. job[w].chunk \in Chunks /\ Of(w) \in Sessions BY JobFacts DEF JobOK
  <1>3. Range(job[w].chunk) \in Ranges BY <1>2, ChunksOfRows
  <1>4. /\ files'[Of(w)][Range(job[w].chunk)] = job[w].data
        /\ \A r \in Ranges : r # Range(job[w].chunk) => files'[Of(w)][r] = files[Of(w)][r]
        /\ \A t \in Sessions : t # Of(w) => files'[t] = files[t]
    BY <1>1, <1>2, <1>3, ChunksOfRows
  <1>5. Writing(w)' /\ ~Writing(w) /\ ~Removing(w) BY <1>1 DEF Writing, Removing
  <1>6. \A v \in Writers : v # w => Writing(v)' = Writing(v) /\ Removing(v)' = Removing(v)
    BY <1>1 DEF Writing, Removing
  <1>7. \A v \in Writers : v # w /\ Works(v) => Of(v) # Of(w) BY <1>1 DEF AloneInv
  <1>8. ASSUME NEW s \in Sessions, \A v \in Writers : Of(v) = s => ~Removing(v)', NEW c \in index[s].chunks
        PROVE  (HasFile(s, c) \/ Replaced(s, c))'
    <2>1. \A v \in Writers : Of(v) = s => ~Removing(v) BY <1>5, <1>6, <1>8
    <2>2. HasFile(s, c) \/ Replaced(s, c) BY <1>8, <2>1 DEF FilesInv
    <2>3. CASE Replaced(s, c)
      <3>1. PICK v \in Writers : Of(v) = s /\ Writing(v) /\ Range(c) = Range(job[v].chunk)
        BY <2>3 DEF Replaced
      <3>2. v # w BY <1>5, <3>1
      <3> QED BY <1>1, <1>6, <3>1, <3>2 DEF Replaced
    <2>4. CASE HasFile(s, c)
      <3>1. CASE s = Of(w) /\ Range(c) = Range(job[w].chunk)
        BY <1>1, <1>5, <3>1 DEF Replaced
      <3>2. CASE ~(s = Of(w) /\ Range(c) = Range(job[w].chunk))
        <4>1. Range(c) \in Ranges BY <1>8, ChunksOfRows
        <4>2. files'[s][Range(c)] = files[s][Range(c)] BY <1>4, <3>2, <4>1
        <4> QED BY <2>4, <4>2 DEF HasFile
      <3> QED BY <3>1, <3>2
    <2> QED BY <2>2, <2>3, <2>4
  <1>9. ASSUME NEW v \in Writers, Writing(v)'
        PROVE  files'[Of(v)][Range(job'[v].chunk)] = job'[v].data
    <2>1. CASE v = w BY <1>1, <1>4, <2>1
    <2>2. CASE v # w
      <3>1. Writing(v) /\ Works(v) BY <1>6, <1>9, <2>2 DEF Writing, Works
      <3>2. Of(v) # Of(w) /\ Of(v) \in Sessions BY <1>7, <2>2, <3>1, JobFacts
      <3> QED BY <1>1, <1>4, <2>2, <3>1, <3>2 DEF FilesInv
    <2> QED BY <2>1, <2>2
  <1> QED BY <1>1, <1>8, <1>9 DEF FilesInv

LEMMA FilesRemoved ==
    ASSUME StoreInv, AloneInv, FilesInv, Calm', Calm, NEW w \in Writers, Files(w), job[w].op = "delete"
    PROVE  FilesInv'
  <1>1. /\ Works(w) /\ job[w].at = "files" /\ \A v \in Writers : v # w => job'[v] = job[v]
        /\ job'[w].op = "delete" /\ index' = index /\ job'[w].at \in {"files", "save"}
        /\ files' = files \/ \E r \in job[w].todo : files' = [files EXCEPT ![Of(w)][r] = 0]
    BY FilesFacts
  <1>2. Of(w) \in Sessions BY JobFacts
  <1>3. \A t \in Sessions : t # Of(w) => files'[t] = files[t]
    BY <1>1, <1>2, ChunksOfRows
  <1>5. Removing(w)' /\ ~Writing(w)' /\ ~Writing(w) BY <1>1 DEF Writing, Removing
  <1>6. \A v \in Writers : v # w => Writing(v)' = Writing(v) /\ Removing(v)' = Removing(v)
    BY <1>1 DEF Writing, Removing
  <1>7. \A v \in Writers : v # w /\ Works(v) => Of(v) # Of(w) BY <1>1 DEF AloneInv
  <1>8. ASSUME NEW s \in Sessions, \A v \in Writers : Of(v) = s => ~Removing(v)', NEW c \in index[s].chunks
        PROVE  (HasFile(s, c) \/ Replaced(s, c))'
    <2>1. s # Of(w) BY <1>5, <1>8
    <2>2. \A v \in Writers : Of(v) = s => ~Removing(v) BY <1>6, <1>8, <2>1
    <2>3. HasFile(s, c) \/ Replaced(s, c) BY <1>8, <2>2 DEF FilesInv
    <2>4. Replaced(s, c) => Replaced(s, c)' BY <1>1, <1>6, <2>1 DEF Replaced
    <2>5. HasFile(s, c) => HasFile(s, c)' BY <1>3, <2>1 DEF HasFile
    <2> QED BY <2>3, <2>4, <2>5
  <1>9. ASSUME NEW v \in Writers, Writing(v)'
        PROVE  files'[Of(v)][Range(job'[v].chunk)] = job'[v].data
    <2>1. v # w BY <1>5, <1>9
    <2>2. Writing(v) /\ Works(v) BY <1>6, <1>9, <2>1 DEF Writing, Works
    <2>3. Of(v) # Of(w) /\ Of(v) \in Sessions BY <1>7, <2>1, <2>2, JobFacts
    <2> QED BY <1>1, <1>3, <2>1, <2>2, <2>3 DEF FilesInv
  <1> QED BY <1>1, <1>8, <1>9 DEF FilesInv

LEMMA FilesSaved ==
    ASSUME StoreInv, AloneInv, FilesInv, Calm', Calm, NEW w \in Writers, Save(w)
    PROVE  FilesInv'
  <1> DEFINE s == Of(w)
             c == job[w].chunk
             copy == job[w].copy
  <1>1. /\ Works(w) /\ job[w].at = "save" /\ job'[w] = After(w)
        /\ \A v \in Writers : v # w =>
                /\ job'[v].op = job[v].op /\ job'[v].at = job[v].at
                /\ job'[v].chunk = job[v].chunk /\ job'[v].data = job[v].data
        /\ files' = files
        /\ \A t \in Sessions : t # s => index'[t] = copy[t]
        /\ index'[s] = Effect(job[w].op, copy[s], c)
        /\ copy \in {index, NoIndex}
    BY SaveFacts
  <1>2. s \in Sessions /\ JobOK(w, job[w]) /\ copy \in [Sessions -> Contract!Row]
    BY JobFacts DEF Jobs
  <1>3. ~Writing(w)' /\ ~Removing(w)' BY <1>1, AfterFacts DEF Writing, Removing
  <1>4. \A v \in Writers : v # w => Writing(v)' = Writing(v) /\ Removing(v)' = Removing(v)
    BY <1>1 DEF Writing, Removing
  <1>5. \A v \in Writers : v # w /\ Works(v) => Of(v) # s BY <1>1 DEF AloneInv
  <1>6. \A t \in Sessions : copy[t].chunks \subseteq index[t].chunks
    BY <1>1, ChunksOfRows
  <1>7. ASSUME NEW d \in index'[s].chunks PROVE files[s][Range(d)] = d.version
    <2>1. CASE job[w].op = "delete"
      <3>1. index'[s] = [copy[s] EXCEPT !.chunks = {}, !.deleted = TRUE] BY <1>1, <2>1 DEF Effect
      <3> QED BY <1>2, <1>7, <3>1 DEF Contract!Row
    <2>2. CASE job[w].op # "delete"
      <3>1. \A v \in Writers : Of(v) = s => ~Removing(v)
        BY <1>5, <2>2 DEF Removing, Works
      <3>2. ASSUME NEW e \in index[s].chunks, ~(job[w].op = "put" /\ Range(e) = Range(c))
            PROVE  files[s][Range(e)] = e.version
        <4>1. HasFile(s, e) \/ Replaced(s, e) BY <1>2, <3>1, <3>2 DEF FilesInv
        <4>2. ~Replaced(s, e) BY <1>5, <3>2 DEF Replaced, Writing, Works
        <4> QED BY <4>1, <4>2 DEF HasFile
      <3>3. CASE job[w].op = "register"
        <4>1. index'[s] = [copy[s] EXCEPT !.known = TRUE, !.deleted = FALSE] BY <1>1, <3>3 DEF Effect
        <4>2. d \in copy[s].chunks BY <1>2, <1>7, <4>1 DEF Contract!Row
        <4>3. d \in index[s].chunks BY <1>2, <1>6, <4>2
        <4> QED BY <3>2, <3>3, <4>3
      <3>4. CASE job[w].op = "put"
        <4>1. index'[s] = [copy[s] EXCEPT !.known = TRUE,
                                 !.chunks = {e \in @ : e.from # c.from} \cup {c}]
          BY <1>1, <3>4 DEF Effect
        <4>2. d = c \/ (d \in copy[s].chunks /\ d.from # c.from) BY <1>2, <1>7, <4>1 DEF Contract!Row
        <4>3. CASE d = c
          <5>1. Writing(w) BY <1>1, <3>4 DEF Writing
          <5>2. job[w].data = c.version BY <3>4 DEF AloneInv
          <5> QED BY <4>3, <5>1, <5>2 DEF FilesInv
        <4>4. CASE d \in copy[s].chunks /\ d.from # c.from
          <5>1. d \in index[s].chunks BY <1>2, <1>6, <4>4
          <5>2. d \in Chunks /\ c \in Chunks BY <1>2, <3>4, <5>1, ChunksOfRows DEF JobOK
          <5>3. Range(d) # Range(c) BY <4>4, <5>2, ChunksOfRows
          <5> QED BY <3>2, <5>1, <5>3
        <4> QED BY <4>2, <4>3, <4>4
      <3> QED BY <1>1, <2>2, <3>3, <3>4, AfterFacts
    <2> QED BY <2>1, <2>2
  <1>8. ASSUME NEW t \in Sessions, \A v \in Writers : Of(v) = t => ~Removing(v)', NEW d \in index'[t].chunks
        PROVE  (HasFile(t, d) \/ Replaced(t, d))'
    <2>1. CASE t = s BY <1>1, <1>7, <1>8, <2>1 DEF HasFile
    <2>2. CASE t # s
      <3>1. d \in index[t].chunks BY <1>1, <1>6, <1>8, <2>2
      <3>2. \A v \in Writers : Of(v) = t => ~Removing(v) BY <1>4, <1>8, <2>2
      <3>3. HasFile(t, d) \/ Replaced(t, d) BY <3>1, <3>2 DEF FilesInv
      <3>4. Replaced(t, d) => Replaced(t, d)' BY <1>1, <1>4, <2>2 DEF Replaced
      <3> QED BY <1>1, <3>3, <3>4 DEF HasFile
    <2> QED BY <2>1, <2>2
  <1>9. ASSUME NEW v \in Writers, Writing(v)'
        PROVE  files'[Of(v)][Range(job'[v].chunk)] = job'[v].data
    <2>1. v # w /\ Writing(v) BY <1>3, <1>4, <1>9
    <2> QED BY <1>1, <2>1 DEF FilesInv
  <1> QED BY <1>8, <1>9 DEF FilesInv

LEMMA FilesStep ==
    ASSUME StoreInv, AloneInv, FilesInv, [Next]_vars
    PROVE  FilesInv'
  <1>0. Calm' => Calm BY MishapsGrow
  <1>1. CASE UNCHANGED vars
    <2>1. UNCHANGED <<index, files, job>> BY <1>1 DEF vars
    <2> QED BY <1>0, <2>1, FilesStay DEF Writing, Removing
  <1>2. ASSUME NEW w \in Writers, UNCHANGED <<index, files>>,
               \A v \in Writers : v # w => job'[v] = job[v],
               Calm' => ~Writing(w) /\ ~Writing(w)' /\ ~Removing(w)
        PROVE  FilesInv'
    BY <1>0, <1>2, FilesStay DEF Writing, Removing
  <1>3. ASSUME NEW s \in Sessions, Publish(s) PROVE FilesInv'
    <2>1. PICK w \in Writers : w = <<s, "publish">> BY IdleFacts
    <2>2. /\ ~Works(w) /\ job'[w].at = "load" /\ \A v \in Writers : v # w => job'[v] = job[v]
          /\ UNCHANGED <<index, files>>
      BY <1>3, <2>1, PublishFacts
    <2> QED BY <1>2, <2>2 DEF Works, Writing, Removing
  <1>4. ASSUME NEW s \in Edited, Unpublish(s) PROVE FilesInv'
    <2>1. PICK w \in Writers : w = <<s, "unpublish">> BY IdleFacts
    <2>2. /\ ~Works(w) /\ job'[w].at = "load" /\ \A v \in Writers : v # w => job'[v] = job[v]
          /\ UNCHANGED <<index, files>>
      BY <1>4, <2>1, UnpublishFacts
    <2> QED BY <1>2, <2>2 DEF Works, Writing, Removing
  <1>5. ASSUME NEW s \in Edited, Grow(s) \/ Rewrite(s) PROVE FilesInv'
    <2>1. UNCHANGED <<index, files, job>> BY <1>5 DEF Grow, Rewrite
    <2> QED BY <1>0, <2>1, FilesStay DEF Writing, Removing
  <1>6. ASSUME NEW w \in Writers, Load(w) PROVE FilesInv'
    <2>1. /\ Works(w) /\ job[w].at = "load" /\ \A v \in Writers : v # w => job'[v] = job[v]
          /\ UNCHANGED <<index, files>>
          /\ \/ job'[w] = After(w)
             \/ /\ job'[w].op = job[w].op
                /\ job'[w].at = IF job[w].op = "register" THEN "save" ELSE "files"
      BY <1>6, LoadFacts
    <2>2. ~Writing(w)' BY <2>1, AfterFacts DEF Writing
    <2> QED BY <1>2, <2>1, <2>2 DEF Writing, Removing
  <1>7. ASSUME NEW w \in Writers, Files(w), Calm' PROVE FilesInv'
    <2>1. job[w].op \in {"put", "delete"} BY <1>7, FilesFacts
    <2> QED BY <1>0, <1>7, <2>1, FilesReplaced, FilesRemoved
  <1>8. ASSUME NEW w \in Writers, Save(w), Calm' PROVE FilesInv'
    BY <1>0, <1>8, FilesSaved
  <1>9. ASSUME NEW w \in Writers, Return(w) \/ End(w) PROVE FilesInv'
    <2>1. /\ job'[w] = NoJob /\ \A v \in Writers : v # w => job'[v] = job[v]
          /\ UNCHANGED <<index, files>>
          /\ Calm' => job[w].at \in {"load", "return"}
      BY <1>9, ReturnFacts, EndFacts
    <2> QED BY <1>2, <2>1, IdleFacts DEF Writing, Removing
  <1>10. CASE ~Calm' BY <1>10 DEF FilesInv
  <1> QED BY <1>1, <1>3, <1>4, <1>5, <1>6, <1>7, <1>8, <1>9, <1>10 DEF Next

(* The store of the contract, and what each session's one writer knows.      *)
LEMMA AloneInvariant == Spec => [](TypeInv /\ StoreInv /\ AloneInv /\ FilesInv)
  <1>1. Init => StoreInv BY StoreStart
  <1>2. Init => AloneInv BY IdleFacts DEF Init, AloneInv, Works, Publishes
  <1>3. Init => FilesInv BY IdleFacts DEF Init, FilesInv, NoIndex, NoRow, Writing
  <1>4. TypeInv /\ TypeInv' /\ StoreInv /\ AloneInv /\ FilesInv /\ [Next]_vars
          => StoreInv' /\ AloneInv' /\ FilesInv'
    BY StoreStep, AloneStep, FilesStep
  <1> QED BY <1>1, <1>2, <1>3, <1>4, TypeInvariant, PTL DEF Spec

(* os.replace before _save_index: between operations on a session the file   *)
(* of each of its chunks is there and holds the bytes that the index names.  *)
THEOREM EntriesHaveFilesAlways == Spec => []EntriesHaveFiles
  <1>1. AloneInv /\ FilesInv => EntriesHaveFiles
    <2> SUFFICES ASSUME FilesInv, Calm, NEW s \in Sessions, Busy(s) = {}, NEW c \in index[s].chunks
                 PROVE  files[s][Range(c)] = c.version
      BY DEF EntriesHaveFiles, Unless, Calm
    <2>1. \A w \in Writers : Of(w) = s => ~Writing(w) /\ ~Removing(w)
      BY DEF Busy, Writing, Removing
    <2> QED BY <2>1 DEF FilesInv, HasFile, Replaced
  <1> QED BY <1>1, AloneInvariant, PTL

-----------------------------------------------------------------------------
(* What is saved as published, and the run that goes on behind it           *)

(* The bytes before n are in the index, in chunks of one document.           *)
Covered(s, n, version) ==
    \A m \in 0 .. n - 1 : \E c \in index[s].chunks :
        c.from <= m /\ m < c.to /\ c.version = version

(* `ezup unpublish` has removed what it will no longer call saved.           *)
Withdrawing(w) == ~IsPublisher(w) /\ Works(w) /\ job[w].at # "load"
Withdrawn(s) == \E w \in Writers : Of(w) = s /\ Withdrawing(w)

SavedOK(s) ==
    /\ saved[s].version <= doc[s].version
    /\ \/ saved[s].version # doc[s].version \/ saved[s].offset = 0 \/ Withdrawn(s)
       \/ ~index[s].deleted /\ Covered(s, saved[s].offset, saved[s].version)
    /\ index[s].chunks # {} => \E c \in index[s].chunks : c.from = 0

(* A run puts its chunk behind what is in the index already, all of it from  *)
(* the document of the run, and behind what is saved.                        *)
RunBuilds(w) ==
    /\ job[w].op = "delete" =>
         saved[Of(w)].version # doc[Of(w)].version /\ job[w].chunk.from = 0
    /\ job[w].op \in {"register", "put"} /\ job[w].at # "return" =>
         /\ Covered(Of(w), job[w].chunk.from, job[w].chunk.version)
         /\ \/ saved[Of(w)].version # doc[Of(w)].version
            \/ saved[Of(w)].offset <= job[w].chunk.from
    /\ job[w].op = "put" => ~index[Of(w)].deleted
    /\ job[w].op = "put" /\ job[w].at = "return" =>
         Covered(Of(w), job[w].chunk.to, job[w].chunk.version)

SavedInv ==
    Read => /\ \A s \in Sessions : SavedOK(s)
            /\ \A w \in Writers : Publishes(w) => RunBuilds(w)

LEMMA SavedTypes ==
    ASSUME StoreInv, NEW s \in Sessions
    PROVE  /\ doc[s].version \in Nat \ {0} /\ doc[s].length \in Nat
           /\ saved[s].version \in Nat /\ saved[s].offset \in Nat
           /\ index[s].chunks \subseteq Chunks
           /\ index[s] \in Contract!Row
           /\ \A c \in Chunks : c.from \in Nat /\ c.to \in Nat /\ c.from < c.to /\ c.version \in Nat
  <1>1. /\ doc[s] \in [version : Versions, length : 0 .. MaxLength]
        /\ saved[s] \in [version : Versions, offset : 0 .. MaxLength]
        /\ index[s] \in Contract!Row
    BY DEF StoreInv, TypeInv, TypeOK, Contract!StoreTypeOK
  <1>2. /\ doc[s].version \in Nat \ {0} /\ doc[s].length \in Nat
        /\ saved[s].version \in Nat /\ saved[s].offset \in Nat
    BY <1>1 DEF Versions
  <1>3. index[s].chunks \subseteq Chunks BY <1>1 DEF Contract!Row
  <1>4. ASSUME NEW c \in Chunks
        PROVE  c.from \in Nat /\ c.to \in Nat /\ c.from < c.to /\ c.version \in Nat
    <2>1. PICK r \in Ranges, v \in Versions : c = [from |-> r.from, to |-> r.to, version |-> v]
      BY DEF Chunks
    <2>2. r \in [from : 0 .. MaxLength, to : 1 .. MaxLength] /\ r.from < r.to BY DEF Ranges
    <2>3. c.from = r.from /\ c.to = r.to /\ c.version = v BY <2>1
    <2> QED BY <2>2, <2>3 DEF Versions
  <1> QED BY <1>1, <1>2, <1>3, <1>4

(* A set of naturals has a least element.                                    *)
LEMMA Least ==
    ASSUME NEW S, S \subseteq Nat, S # {}
    PROVE  \E x \in S : \A y \in S : x <= y
  <1> DEFINE R == OpToRel(<, Nat)
  <1>1. IsWellFoundedOn(R, Nat) BY NatLessThanWellFounded
  <1>2. \A x, y \in Nat : x < y => <<x, y>> \in R BY DEF OpToRel
  <1> HIDE DEF R
  <1>3. PICK x \in S : \A y \in S : <<y, x>> \notin R BY <1>1, WFMin
  <1>4. ASSUME NEW y \in S PROVE x <= y
    <2>1. ~(y < x) BY <1>2, <1>3
    <2> QED BY <2>1
  <1> QED BY <1>4

(* The run of chunks that reconcile can check leaves nothing out: of the     *)
(* chunks that begin behind a byte it leaves out, the least would begin where*)
(* another of them ends.                                                     *)
LEMMA VerifiedCovers ==
    ASSUME StoreInv, NEW s \in Sessions, NEW n \in Nat, saved[s].offset = 0, StartsAt(s, n),
           index[s].chunks # {} => \E c \in index[s].chunks : c.from = 0
    PROVE  Covered(s, n, doc[s].version)
  <1> SUFFICES ASSUME NEW m \in 0 .. n - 1
               PROVE  \E c \in index[s].chunks : c.from <= m /\ m < c.to /\ c.version = doc[s].version
    BY DEF Covered
  <1> DEFINE remote == index[s].chunks
             matches(d) == d.version = doc[s].version /\ d.to <= doc[s].length
  <1>1. \A d \in remote : d.from \in Nat /\ d.to \in Nat /\ d.from < d.to
    BY SavedTypes
  <1>2. PICK c \in Verified(s) : c.to = n
    BY DEF StartsAt
  <1>3. /\ c \in remote
        /\ \A d \in remote : d.from <= c.from =>
             /\ matches(d)
             /\ (\A e \in remote : d.from <= e.from) \/ (\E e \in remote : e.to = d.from)
    BY <1>2 DEF Verified
  <1>4. matches(c) BY <1>1, <1>3
  <1>5. CASE c.from <= m BY <1>1, <1>2, <1>3, <1>4, <1>5
  <1>6. CASE m < c.from
    <2> DEFINE behind == {x \in Nat : m < x /\ x <= c.from /\ \E d \in remote : d.from = x}
    <2>1. c.from \in behind BY <1>1, <1>3, <1>6
    <2>2. PICK x \in behind : \A y \in behind : x <= y
      <3>1. behind \subseteq Nat /\ behind # {} BY <2>1
      <3> HIDE DEF behind
      <3> QED BY <3>1, Least
    <2>3. PICK d \in remote : d.from = x BY <2>2
    <2>4. x \in Nat /\ m < x /\ x <= c.from BY <2>2
    <2>5. (\A e \in remote : d.from <= e.from) \/ (\E e \in remote : e.to = d.from)
      BY <1>3, <2>3, <2>4
    <2>6. \E e \in remote : e.from = 0 BY <1>3
    <2>7. ~(\A e \in remote : d.from <= e.from) BY <2>3, <2>4, <2>6
    <2>8. PICK e \in remote : e.to = d.from BY <2>5, <2>7
    <2>9. e.from \in Nat /\ e.from < x /\ e.to = x BY <1>1, <2>3, <2>8
    <2>10. e.from <= m
      <3>1. ~(m < e.from)
        <4> SUFFICES ASSUME m < e.from PROVE FALSE OBVIOUS
        <4>1. e.from \in behind BY <1>1, <1>3, <2>4, <2>9
        <4> HIDE DEF behind
        <4> QED BY <2>2, <2>4, <2>9, <4>1
      <3> QED BY <2>9, <3>1
    <2>11. matches(e) BY <1>1, <1>3, <2>4, <2>9
    <2> QED BY <2>4, <2>9, <2>10, <2>11
  <1> QED BY <1>1, <1>3, <1>5, <1>6

(* A session that a step leaves alone stays as it is, and so does what its   *)
(* run builds on.                                                            *)
LEMMA SavedStays ==
    ASSUME SavedInv, Read, NEW s \in Sessions, index'[s] = index[s], saved'[s] = saved[s],
           doc'[s].version = doc[s].version
    PROVE  /\ (Withdrawn(s) => Withdrawn(s)') => SavedOK(s)'
           /\ \A w \in Writers :
                Of(w) = s /\ Publishes(w) /\ job'[w].op = job[w].op /\ job'[w].at = job[w].at
                  /\ job'[w].chunk = job[w].chunk => RunBuilds(w)'
  <1>1. (Withdrawn(s) => Withdrawn(s)') => SavedOK(s)'
    <2>1. SavedOK(s) BY DEF SavedInv
    <2> QED BY <2>1 DEF SavedOK, Covered
  <1>2. ASSUME NEW w \in Writers, Of(w) = s, Publishes(w), job'[w].op = job[w].op,
               job'[w].at = job[w].at, job'[w].chunk = job[w].chunk
        PROVE  RunBuilds(w)'
    <2>1. RunBuilds(w) BY <1>2 DEF SavedInv
    <2> QED BY <1>2, <2>1 DEF RunBuilds, Covered
  <1> QED BY <1>1, <1>2

(* The step of a session's one writer.                                       *)
LEMMA SavedAt ==
    ASSUME StoreInv, SavedInv, Read' => Read, NEW w \in Writers,
           UNCHANGED doc,
           Read' => \A t \in Sessions : t # Of(w) => index'[t] = index[t] /\ saved'[t] = saved[t],
           \A v \in Writers : v # w => /\ job'[v].op = job[v].op /\ job'[v].at = job[v].at
                                       /\ job'[v].chunk = job[v].chunk,
           Read' => \A v \in Writers : v # w /\ Of(v) = Of(w) => ~Works(v),
           Read' => SavedOK(Of(w))',
           Read' /\ Publishes(w)' => RunBuilds(w)'
    PROVE  SavedInv'
  <1> SUFFICES ASSUME Read', Read
               PROVE  /\ \A s \in Sessions : SavedOK(s)'
                      /\ \A v \in Writers : Publishes(v)' => RunBuilds(v)'
    BY DEF SavedInv
  <1>1. ASSUME NEW s \in Sessions PROVE SavedOK(s)'
    <2>1. CASE s = Of(w) BY <2>1
    <2>2. CASE s # Of(w)
      <3>1. Withdrawn(s) => Withdrawn(s)' BY <2>2 DEF Withdrawn, Withdrawing, Works
      <3> QED BY <2>2, <3>1, SavedStays
    <2> QED BY <2>1, <2>2
  <1>2. ASSUME NEW v \in Writers, Publishes(v)' PROVE RunBuilds(v)'
    <2>1. CASE v = w BY <1>2, <2>1
    <2>2. CASE v # w
      <3>1. Publishes(v) BY <1>2, <2>2 DEF Publishes, Works
      <3>2. Of(v) # Of(w) /\ Of(v) \in Sessions BY <2>2, <3>1, JobFacts DEF Publishes
      <3> QED BY <2>2, <3>1, <3>2, SavedStays
    <2> QED BY <2>1, <2>2
  <1> QED BY <1>1, <1>2

LEMMA SavedPublish ==
    ASSUME StoreInv, SavedInv, Read' => Read, NEW s \in Sessions, Publish(s)
    PROVE  SavedInv'
  <1>1. PICK w \in Writers : w = <<s, "publish">> BY IdleFacts
  <1>2. /\ IsPublisher(w) /\ Of(w) = s /\ ~Works(w)
        /\ \A v \in Writers : v # w => job'[v] = job[v]
        /\ job'[w].at = "load" /\ job'[w].op \in {"delete", "register"}
        /\ job'[w].chunk.version = doc[s].version
        /\ job'[w].op = "delete" =>
             saved[s].version # doc[s].version /\ job'[w].chunk.from = 0
        /\ job'[w].op = "register" =>
             /\ StartsAt(s, job'[w].chunk.from) /\ job'[w].chunk.from \in Nat
             /\ saved[s].offset > 0 => saved[s].version = doc[s].version
        /\ Calm' => \A v \in Writers : Of(v) = s => ~Works(v)
        /\ UNCHANGED <<doc, saved, index, files>>
    BY <1>1, PublishFacts
  <1>3. Read' => \A v \in Writers : Of(v) = s => ~Works(v) BY <1>2 DEF Read
  <1>4. Read' => ~Withdrawn(s) BY <1>3 DEF Withdrawn, Withdrawing
  <1>5. Read' => SavedOK(s)' BY <1>2, <1>4, SavedStays
  <1>6. ASSUME Read', job'[w].op = "register"
        PROVE  Covered(s, job'[w].chunk.from, doc[s].version) /\ saved[s].offset <= job'[w].chunk.from
    <2> DEFINE n == job'[w].chunk.from
    <2>1. SavedOK(s) BY <1>6 DEF SavedInv
    <2>2. StartsAt(s, n) /\ n \in Nat BY <1>2, <1>6
    <2>3. saved[s].offset \in Nat BY SavedTypes
    <2> HIDE DEF n
    <2>4. CASE saved[s].offset > 0
      <3>1. saved[s].version = doc[s].version /\ n = saved[s].offset
        BY <1>2, <1>6, <2>2, <2>4 DEF StartsAt
      <3>2. Covered(s, saved[s].offset, saved[s].version)
        BY <1>4, <1>6, <2>1, <2>3, <2>4, <3>1 DEF SavedOK
      <3> QED BY <2>3, <3>1, <3>2 DEF n
    <2>5. CASE saved[s].offset = 0
      <3>1. Covered(s, n, doc[s].version)
        BY <2>1, <2>2, <2>5, VerifiedCovers DEF SavedOK
      <3> QED BY <2>2, <2>5, <3>1 DEF n
    <2> QED BY <2>3, <2>4, <2>5
  <1>7. Read' => RunBuilds(w)' BY <1>2, <1>6 DEF RunBuilds, Covered
  <1> QED BY <1>2, <1>3, <1>5, <1>7, SavedAt

LEMMA SavedLoad ==
    ASSUME StoreInv, AloneInv, SavedInv, Read' => Read, NEW w \in Writers, Load(w)
    PROVE  SavedInv'
  <1> DEFINE s == Of(w)
             c == job[w].chunk
  <1>1. PICK copy \in {index, NoIndex} :
             /\ Works(w) /\ job[w].at = "load"
             /\ \A v \in Writers : v # w => job'[v] = job[v]
             /\ UNCHANGED <<doc, saved, index, files>>
             /\ Read' => copy = index
             /\ \/ /\ job'[w] = After(w)
                   /\ \/ job[w].op = "delete" /\ ~copy[Of(w)].known
                      \/ job[w].op = "put" /\ job[w].chunk \in copy[Of(w)].chunks
                \/ /\ job'[w].op = job[w].op /\ job'[w].chunk = job[w].chunk
                   /\ job'[w].at = IF job[w].op = "register" THEN "save" ELSE "files"
    BY LoadFacts
  <1>2. Read' => Calm BY DEF Read
  <1>3. Read' => \A v \in Writers : v # w /\ Of(v) = s => ~Works(v) BY <1>1, <1>2 DEF AloneInv
  <1>4. Read' => ~Withdrawn(s) BY <1>1, <1>3 DEF Withdrawn, Withdrawing
  <1>5. s \in Sessions BY JobFacts
  <1>6. Read' => SavedOK(s)' BY <1>1, <1>4, <1>5, SavedStays
  <1>7. ASSUME Read', Publishes(w)' PROVE RunBuilds(w)'
    <2>1. Publishes(w) BY <1>1, <1>7 DEF Publishes
    <2>2. RunBuilds(w) BY <1>7, <2>1 DEF SavedInv
    <2>3. CASE job'[w].op = job[w].op /\ job'[w].chunk = c /\ job'[w].at \notin {"load", "return"}
      BY <1>1, <2>2, <2>3 DEF RunBuilds, Covered
    <2>4. CASE job'[w] = After(w) /\ job[w].op = "delete"
      <3>1. job'[w].op = "register" /\ job'[w].at = "load" /\ job'[w].chunk = c
        BY <1>1, <2>1, <2>4, AfterFacts DEF Publishes
      <3>2. c.from = 0 /\ saved[s].version # doc[s].version BY <2>2, <2>4 DEF RunBuilds
      <3> QED BY <1>1, <3>1, <3>2 DEF RunBuilds, Covered
    <2>5. CASE job'[w] = After(w) /\ job[w].op = "put" /\ c \in copy[s].chunks
      <3>1. job'[w].op = "put" /\ job'[w].at = "return" /\ job'[w].chunk = c
        BY <1>1, <2>5, AfterFacts
      <3>2. c \in index[s].chunks BY <1>1, <1>7, <2>5
      <3>3. Covered(s, c.from, c.version) /\ ~index[s].deleted BY <1>1, <2>2, <2>5 DEF RunBuilds
      <3>4. c.from \in Nat /\ c.to \in Nat BY <1>5, <3>2, SavedTypes
      <3>5. Covered(s, c.to, c.version)
        <4> SUFFICES ASSUME NEW m \in 0 .. c.to - 1
                     PROVE  \E d \in index[s].chunks : d.from <= m /\ m < d.to /\ d.version = c.version
          BY DEF Covered
        <4>1. CASE c.from <= m BY <3>2, <3>4, <4>1
        <4>2. CASE m < c.from
          <5>1. m \in 0 .. c.from - 1 BY <3>4, <4>2
          <5> QED BY <3>3, <5>1 DEF Covered
        <4> QED BY <3>4, <4>1, <4>2
      <3> QED BY <1>1, <3>1, <3>3, <3>5 DEF RunBuilds, Covered
    <2> QED BY <1>1, <2>3, <2>4, <2>5
  <1> QED BY <1>1, <1>3, <1>6, <1>7, SavedAt

LEMMA SavedFiles ==
    ASSUME StoreInv, AloneInv, SavedInv, Read' => Read, NEW w \in Writers, Files(w)
    PROVE  SavedInv'
  <1> DEFINE s == Of(w)
  <1>1. /\ Works(w) /\ job[w].at = "files"
        /\ \A v \in Writers : v # w => job'[v] = job[v]
        /\ job'[w].op = job[w].op /\ job'[w].chunk = job[w].chunk /\ job'[w].at \in {"files", "save"}
        /\ UNCHANGED <<doc, saved, index>>
    BY FilesFacts
  <1>2. Read' => Calm BY DEF Read
  <1>3. Read' => \A v \in Writers : v # w /\ Of(v) = s => ~Works(v) BY <1>1, <1>2 DEF AloneInv
  <1>4. s \in Sessions BY JobFacts
  <1>5. Withdrawn(s) => Withdrawn(s)' BY <1>1 DEF Withdrawn, Withdrawing, Works
  <1>6. Read' => SavedOK(s)' BY <1>1, <1>4, <1>5, SavedStays
  <1>7. ASSUME Read', Publishes(w)' PROVE RunBuilds(w)'
    <2>1. RunBuilds(w) BY <1>1, <1>7 DEF SavedInv, Publishes
    <2> QED BY <1>1, <2>1 DEF RunBuilds, Covered
  <1> QED BY <1>1, <1>3, <1>6, <1>7, SavedAt

LEMMA SavedSave ==
    ASSUME StoreInv, AloneInv, SavedInv, Read' => Read, NEW w \in Writers, Save(w)
    PROVE  SavedInv'
  <1> DEFINE s == Of(w)
             c == job[w].chunk
  <1>1. /\ Works(w) /\ job[w].at = "save" /\ job'[w] = After(w)
        /\ \A v \in Writers : v # w =>
                /\ job'[v].op = job[v].op /\ job'[v].at = job[v].at
                /\ job'[v].chunk = job[v].chunk
        /\ UNCHANGED <<doc, saved, files>>
        /\ Read' => \A t \in Sessions : t # s => index'[t] = index[t]
        /\ Read' => index'[s] = Effect(job[w].op, index[s], c)
    BY SaveFacts
  <1>2. Read' => Calm BY DEF Read
  <1>3. Read' => \A v \in Writers : v # w /\ Of(v) = s => ~Works(v) BY <1>1, <1>2 DEF AloneInv
  <1>4. s \in Sessions /\ index[s] \in Contract!Row BY JobFacts, SavedTypes
  <1>5. Read' => SavedOK(s) BY <1>4 DEF SavedInv
  <1>6. Read' /\ Publishes(w) => RunBuilds(w) /\ c.version = doc[s].version
    BY <1>2 DEF SavedInv, AloneInv
  <1>7. ASSUME Read', job[w].op = "register" PROVE SavedOK(s)' /\ (Publishes(w)' => RunBuilds(w)')
    <2>1. IsPublisher(w) /\ Publishes(w) BY <1>1, <1>7 DEF AloneInv, Publishes
    <2>2. index'[s] = [index[s] EXCEPT !.known = TRUE, !.deleted = FALSE] BY <1>1, <1>7 DEF Effect
    <2>3. index'[s].chunks = index[s].chunks /\ ~index'[s].deleted BY <1>4, <2>2 DEF Contract!Row
    <2>4. ~Withdrawn(s) BY <1>3, <1>7, <2>1 DEF Withdrawn, Withdrawing
    <2>5. SavedOK(s)' BY <1>1, <1>5, <1>7, <2>3, <2>4 DEF SavedOK, Covered
    <2>6. \/ ~Works(w)'
          \/ job'[w].op = "put" /\ job'[w].at = "load" /\ job'[w].chunk = c
      BY <1>1, <1>7, AfterFacts, IdleFacts DEF Works
    <2>7. Covered(s, c.from, c.version) /\ (saved[s].version # doc[s].version \/ saved[s].offset <= c.from)
      BY <1>1, <1>6, <1>7, <2>1 DEF RunBuilds
    <2>8. Publishes(w)' => RunBuilds(w)'
      BY <1>1, <2>3, <2>6, <2>7 DEF RunBuilds, Covered, Publishes
    <2> QED BY <2>5, <2>8
  <1>8. ASSUME Read', job[w].op = "put" PROVE SavedOK(s)' /\ RunBuilds(w)'
    <2>1. Publishes(w) BY <1>1, <1>8 DEF AloneInv, Publishes
    <2>2. index'[s] = [index[s] EXCEPT !.known = TRUE, !.chunks = {d \in @ : d.from # c.from} \cup {c}]
      BY <1>1, <1>8 DEF Effect
    <2>3. /\ index'[s].chunks = {d \in index[s].chunks : d.from # c.from} \cup {c}
          /\ index'[s].deleted = index[s].deleted
      BY <1>4, <2>2 DEF Contract!Row
    <2>4. /\ Covered(s, c.from, c.version) /\ ~index[s].deleted
          /\ saved[s].version # doc[s].version \/ saved[s].offset <= c.from
      BY <1>1, <1>6, <1>8, <2>1 DEF RunBuilds
    <2>5. c \in Chunks BY <1>8, JobFacts DEF JobOK
    <2>6. c.from \in Nat /\ c.to \in Nat /\ c.from < c.to BY <1>4, <2>5, SavedTypes
    <2>7. \A d \in index[s].chunks : d.from \in Nat /\ d.to \in Nat BY <1>4, SavedTypes
    <2>8. ASSUME NEW m \in 0 .. c.to - 1
          PROVE  \E d \in index'[s].chunks : d.from <= m /\ m < d.to /\ d.version = c.version
      <3>1. CASE c.from <= m BY <2>3, <2>6, <3>1
      <3>2. CASE m < c.from
        <4>1. m \in 0 .. c.from - 1 BY <2>6, <3>2
        <4>2. PICK d \in index[s].chunks : d.from <= m /\ m < d.to /\ d.version = c.version
          BY <2>4, <4>1 DEF Covered
        <4>3. d.from # c.from BY <2>6, <2>7, <3>2, <4>2
        <4> QED BY <2>3, <4>2, <4>3
      <3> QED BY <2>6, <3>1, <3>2
    <2>9. Covered(s, c.to, c.version)' BY <1>1, <2>8, AfterFacts, <1>8 DEF Covered
    <2>10. job'[w].op = "put" /\ job'[w].at = "return" /\ job'[w].chunk = c
      BY <1>1, <1>8, AfterFacts
    <2>11. RunBuilds(w)' BY <2>3, <2>4, <2>8, <2>10 DEF RunBuilds, Covered
    <2>12. \E d \in index'[s].chunks : d.from = 0
      <3>1. 0 \in 0 .. c.to - 1 BY <2>6
      <3>2. PICK d \in index'[s].chunks : d.from <= 0 BY <2>8, <3>1
      <3>3. d.from \in Nat BY <2>3, <2>6, <2>7
      <3> QED BY <3>2, <3>3
    <2>13. saved[s].version = doc[s].version =>
              \A m \in 0 .. saved[s].offset - 1 : \E d \in index'[s].chunks :
                  d.from <= m /\ m < d.to /\ d.version = saved[s].version
      <3> SUFFICES ASSUME saved[s].version = doc[s].version, NEW m \in 0 .. saved[s].offset - 1
                   PROVE  \E d \in index'[s].chunks :
                            d.from <= m /\ m < d.to /\ d.version = saved[s].version
        OBVIOUS
      <3>1. saved[s].offset \in Nat /\ saved[s].offset <= c.from BY <1>4, <2>4, SavedTypes
      <3>2. m \in 0 .. c.to - 1 BY <2>6, <3>1
      <3>3. c.version = saved[s].version BY <1>6, <1>8, <2>1
      <3> QED BY <2>8, <3>2, <3>3
    <2>14. SavedOK(s)'
      BY <1>1, <1>5, <1>8, <2>3, <2>4, <2>12, <2>13 DEF SavedOK, Covered
    <2> QED BY <2>11, <2>14
  <1>9. ASSUME Read', job[w].op = "delete" PROVE SavedOK(s)' /\ (Publishes(w)' => RunBuilds(w)')
    <2>1. index'[s] = [index[s] EXCEPT !.chunks = {}, !.deleted = TRUE] BY <1>1, <1>9 DEF Effect
    <2>2. index'[s].chunks = {} BY <1>4, <2>1 DEF Contract!Row
    <2>3. CASE IsPublisher(w)
      <3>1. saved[s].version # doc[s].version /\ c.from = 0
        BY <1>1, <1>6, <1>9, <2>3 DEF RunBuilds, Publishes
      <3>2. job'[w].op = "register" /\ job'[w].at = "load" /\ job'[w].chunk = c
        BY <1>1, <1>9, <2>3, AfterFacts
      <3>3. RunBuilds(w)' BY <1>1, <3>1, <3>2 DEF RunBuilds, Covered
      <3>4. SavedOK(s)' BY <1>1, <1>5, <1>9, <2>2, <3>1 DEF SavedOK
      <3> QED BY <3>3, <3>4
    <2>4. CASE ~IsPublisher(w)
      <3>1. job'[w].op = "delete" /\ job'[w].at = "return" BY <1>1, <1>9, <2>4, AfterFacts
      <3>2. Withdrawn(s)' BY <2>4, <3>1 DEF Withdrawn, Withdrawing, Works
      <3>3. SavedOK(s)' BY <1>1, <1>5, <1>9, <2>2, <3>2 DEF SavedOK
      <3> QED BY <2>4, <3>3 DEF Publishes
    <2> QED BY <2>3, <2>4
  <1>10. job[w].op \in {"register", "put", "delete"} BY <1>1, AfterFacts
  <1>11. Read' => SavedOK(s)' BY <1>7, <1>8, <1>9, <1>10
  <1>12. Read' /\ Publishes(w)' => RunBuilds(w)' BY <1>7, <1>8, <1>9, <1>10
  <1> QED BY <1>1, <1>3, <1>11, <1>12, SavedAt

LEMMA SavedReturn ==
    ASSUME StoreInv, AloneInv, SavedInv, Read' => Read, NEW w \in Writers, Return(w)
    PROVE  SavedInv'
  <1> DEFINE s == Of(w)
             c == job[w].chunk
  <1>1. /\ Works(w) /\ job[w].at = "return" /\ job'[w] = NoJob
        /\ \A v \in Writers : v # w => job'[v] = job[v]
        /\ UNCHANGED <<doc, index, files, mishaps>>
        /\ \A t \in Sessions : t # s => saved'[t] = saved[t]
        /\ IsPublisher(w) =>
             /\ job[w].op = "put" /\ c \in Chunks
             /\ saved'[s] = [version |-> c.version, offset |-> c.to]
        /\ ~IsPublisher(w) => saved'[s] = NothingSaved
    BY ReturnFacts
  <1>2. Read' => Calm BY DEF Read
  <1>3. Read' => \A v \in Writers : v # w /\ Of(v) = s => ~Works(v) BY <1>1, <1>2 DEF AloneInv
  <1>4. s \in Sessions BY JobFacts
  <1>5. ~Publishes(w)' BY <1>1, IdleFacts DEF Publishes, Works
  <1>6. ASSUME Read' PROVE SavedOK(s)'
    <2>1. SavedOK(s) /\ doc[s].version \in Nat \ {0} BY <1>4, <1>6, SavedTypes DEF SavedInv
    <2>2. CASE IsPublisher(w)
      <3>1. Publishes(w) BY <1>1, <2>2 DEF Publishes
      <3>2. RunBuilds(w) /\ c.version = doc[s].version BY <1>2, <1>6, <3>1 DEF SavedInv, AloneInv
      <3>3. Covered(s, c.to, c.version) /\ ~index[s].deleted BY <1>1, <2>2, <3>2 DEF RunBuilds
      <3>4. saved'[s].version = c.version /\ saved'[s].offset = c.to BY <1>1, <2>2
      <3> QED BY <1>1, <2>1, <3>2, <3>3, <3>4 DEF SavedOK, Covered
    <2>3. CASE ~IsPublisher(w)
      <3>1. saved'[s].version = 1 /\ saved'[s].offset = 0 BY <1>1, <2>3 DEF NothingSaved
      <3> QED BY <1>1, <2>1, <3>1 DEF SavedOK
    <2> QED BY <2>2, <2>3
  <1> QED BY <1>1, <1>3, <1>5, <1>6, SavedAt

LEMMA SavedEnd ==
    ASSUME StoreInv, AloneInv, SavedInv, Read' => Read, NEW w \in Writers, End(w)
    PROVE  SavedInv'
  <1> DEFINE s == Of(w)
  <1>1. /\ Works(w) /\ job'[w] = NoJob
        /\ \A v \in Writers : v # w => job'[v] = job[v]
        /\ UNCHANGED <<doc, saved, index, files>>
        /\ Calm' => job[w].at = "load" \/ (job[w].op = "put" /\ job[w].at = "return")
    BY EndFacts
  <1>2. Read' => Calm /\ Calm' BY DEF Read
  <1>3. Read' => \A v \in Writers : v # w /\ Of(v) = s => ~Works(v) BY <1>1, <1>2 DEF AloneInv
  <1>4. s \in Sessions BY JobFacts
  <1>5. ~Publishes(w)' BY <1>1, IdleFacts DEF Publishes, Works
  <1>6. Read' => ~Withdrawing(w) BY <1>1, <1>2 DEF Withdrawing, AloneInv
  <1>7. Read' => ~Withdrawn(s) BY <1>3, <1>6 DEF Withdrawn, Withdrawing
  <1>8. Read' => SavedOK(s)' BY <1>1, <1>4, <1>7, SavedStays
  <1> QED BY <1>1, <1>3, <1>5, <1>8, SavedAt

LEMMA SavedStep ==
    ASSUME StoreInv, AloneInv, SavedInv, [Next]_vars
    PROVE  SavedInv'
  <1>0. Read' => Read BY MishapsGrow
  <1>1. ASSUME UNCHANGED <<saved, index, job>>, \A s \in Sessions : doc'[s].version = doc[s].version
        PROVE  SavedInv'
    <2>1. \A s \in Sessions : Withdrawn(s) => Withdrawn(s)' BY <1>1 DEF Withdrawn, Withdrawing, Works
    <2>2. \A w \in Writers : Publishes(w)' => Publishes(w) /\ Of(w) \in Sessions
      BY <1>1, WriterTypes DEF Publishes, Works
    <2>3. Read' => \A s \in Sessions : SavedOK(s)' BY <1>0, <1>1, <2>1, SavedStays
    <2>4. Read' => \A w \in Writers : Publishes(w)' => RunBuilds(w)' BY <1>0, <1>1, <2>2, SavedStays
    <2> QED BY <2>3, <2>4 DEF SavedInv
  <1>2. CASE UNCHANGED vars
    <2>1. UNCHANGED <<saved, index, job, doc>> BY <1>2 DEF vars
    <2> QED BY <1>1, <2>1
  <1>3. ASSUME NEW s \in Sessions, Publish(s) PROVE SavedInv'
    BY <1>0, <1>3, SavedPublish
  <1>4. ASSUME NEW s \in Edited, Unpublish(s) PROVE SavedInv'
    <2>1. PICK w \in Writers : w = <<s, "unpublish">> BY IdleFacts
    <2>2. /\ ~IsPublisher(w) /\ Of(w) = s /\ ~Works(w) /\ s \in Sessions
          /\ \A v \in Writers : v # w => job'[v] = job[v]
          /\ Calm' => \A v \in Writers : Of(v) = s => ~Works(v)
          /\ UNCHANGED <<doc, saved, index, files>>
      BY <1>4, <2>1, UnpublishFacts
    <2>3. Read' => \A v \in Writers : Of(v) = s => ~Works(v) BY <2>2 DEF Read
    <2>4. Read' => ~Withdrawn(s) BY <2>3 DEF Withdrawn, Withdrawing
    <2>5. Read' => SavedOK(s)' BY <1>0, <2>2, <2>4, SavedStays
    <2>6. ~Publishes(w)' BY <2>2 DEF Publishes
    <2> QED BY <1>0, <2>2, <2>3, <2>5, <2>6, SavedAt
  <1>5. ASSUME NEW s \in Edited, Grow(s) PROVE SavedInv'
    <2>1. doc \in [Sessions -> [version : Versions, length : 0 .. MaxLength]]
      BY DEF StoreInv, TypeInv, TypeOK
    <2>2. UNCHANGED <<saved, index, job>> /\ \A t \in Sessions : doc'[t].version = doc[t].version
      BY <1>5, <2>1 DEF Grow
    <2> QED BY <1>1, <2>2
  <1>6. ASSUME NEW s \in Edited, Rewrite(s), Read' PROVE SavedInv'
    <2>1. /\ doc \in [Sessions -> [version : Versions, length : 0 .. MaxLength]]
          /\ saved[s].version \in Nat /\ doc[s].version \in Nat
      BY SavedTypes DEF StoreInv, TypeInv, TypeOK
    <2>2. /\ UNCHANGED <<saved, index, job>> /\ \A t \in Sessions : t # s => doc'[t] = doc[t]
          /\ doc'[s].version = doc[s].version + 1
      BY <1>6, <2>1 DEF Rewrite
    <2>3. job[<<s, "publish">>].op = "none" BY <1>6 DEF Rewrite, Suffers, Read, Calm
    <2>4. \A w \in Writers : Of(w) = s /\ IsPublisher(w) => w = <<s, "publish">>
      BY DEF Writers, Of, IsPublisher
    <2>5. \A w \in Writers : Publishes(w)' => Of(w) # s /\ Of(w) \in Sessions /\ Publishes(w)
      BY <2>2, <2>3, <2>4, WriterTypes DEF Publishes, Works
    <2>6. SavedOK(s)'
      <3>1. SavedOK(s) BY <1>0, <1>6 DEF SavedInv
      <3> QED BY <2>1, <2>2, <3>1 DEF SavedOK
    <2>7. \A t \in Sessions : Withdrawn(t) => Withdrawn(t)' BY <2>2 DEF Withdrawn, Withdrawing, Works
    <2>8. \A t \in Sessions : t # s => SavedOK(t)' BY <1>0, <1>6, <2>2, <2>7, SavedStays
    <2>9. \A w \in Writers : Publishes(w)' => RunBuilds(w)'
      BY <1>0, <1>6, <2>2, <2>5, SavedStays
    <2> QED BY <2>6, <2>8, <2>9 DEF SavedInv
  <1>7. CASE ~Read' BY <1>7 DEF SavedInv
  <1> QED BY <1>0, <1>2, <1>3, <1>4, <1>5, <1>6, <1>7,
             SavedLoad, SavedFiles, SavedSave, SavedReturn, SavedEnd DEF Next

LEMMA SavedInvariant == Spec => [](StoreInv /\ AloneInv /\ SavedInv)
  <1>1. Init => SavedInv
    <2> SUFFICES ASSUME Init PROVE SavedInv OBVIOUS
    <2>1. \A s \in Sessions : SavedOK(s)
      BY DEF Init, SavedOK, NothingSaved, NoIndex, NoRow
    <2>2. \A w \in Writers : ~Publishes(w) BY IdleFacts DEF Init, Publishes, Works
    <2> QED BY <2>1, <2>2 DEF SavedInv
  <1>2. StoreInv /\ AloneInv /\ SavedInv /\ [Next]_vars => SavedInv' BY SavedStep
  <1> QED BY <1>1, <1>2, AloneInvariant, PTL DEF Spec

(* What a publisher has saved as published is in the index and not deleted,  *)
(* as long as the transcript is the one it published: also when it took up   *)
(* the chunks of a run that had ended before it saved.                       *)
THEOREM PublishedIsIndexedAlways == Spec => []PublishedIsIndexed
  <1>1. SavedInv => PublishedIsIndexed
    <2> SUFFICES ASSUME SavedInv, Read, NEW s \in Sessions, Busy(s) = {},
                        saved[s].offset # 0, saved[s].version = doc[s].version
                 PROVE  /\ ~index[s].deleted
                        /\ \A n \in 0 .. saved[s].offset - 1 :
                             \E c \in index[s].chunks :
                                 c.from <= n /\ n < c.to /\ c.version = saved[s].version
      BY DEF PublishedIsIndexed, Unless, Read, Calm
    <2>1. ~Withdrawn(s) BY DEF Busy, Withdrawn, Withdrawing, Works
    <2>2. SavedOK(s) BY DEF SavedInv
    <2> QED BY <2>1, <2>2 DEF SavedOK, Covered
  <1> QED BY <1>1, SavedInvariant, PTL

-----------------------------------------------------------------------------
(* Whose each file of the folder is                                         *)

Below(s, n) == \A d \in index[s].chunks : d.to <= n
Indexed(s, r) == \E c \in index[s].chunks : Range(c) = r
Uploading(s, r) == \E w \in Writers : Of(w) = s /\ Writing(w) /\ Range(job[w].chunk) = r
Uploaded(s) == \E w \in Writers : Of(w) = s /\ Publishes(w) /\ job[w].at = "return"

(* Every file is that of a chunk of the index or of the upload under way.    *)
AccountOK(s) ==
    /\ \A r \in Ranges : files[s][r] # 0 => Indexed(s, r) \/ Uploading(s, r)
    /\ Below(s, saved[s].offset) \/ Uploaded(s)
    /\ index[s].deleted => index[s].chunks = {}

(* A delete knows of all of them; and a chunk is put behind all others, so   *)
(* that it takes the place of none.                                          *)
RunAccounts(w) ==
    /\ Removing(w) => /\ \A r \in Ranges : files[Of(w)][r] # 0 => r \in job[w].todo
                      /\ job[w].at = "save" => job[w].todo = {}
    /\ job[w].op \in {"register", "put"} /\ job[w].at # "return" => Below(Of(w), job[w].chunk.from)
    /\ job[w].op = "put" /\ job[w].at = "return" => Below(Of(w), job[w].chunk.to)
    /\ job[w].op = "delete" /\ job[w].at = "return" => index[Of(w)].chunks = {}

AccountInv ==
    Kept => /\ \A s \in Sessions : AccountOK(s)
            /\ \A w \in Writers : RunAccounts(w)

LEMMA AccountStays ==
    ASSUME AccountInv, Kept, NEW s \in Sessions, index'[s] = index[s], saved'[s] = saved[s],
           files'[s] = files[s]
    PROVE  /\ (\A r \in Ranges : Uploading(s, r) => Uploading(s, r)') /\ (Uploaded(s) => Uploaded(s)')
                => AccountOK(s)'
           /\ \A w \in Writers :
                Of(w) = s /\ job'[w].op = job[w].op /\ job'[w].at = job[w].at
                  /\ job'[w].chunk = job[w].chunk /\ job'[w].todo = job[w].todo => RunAccounts(w)'
  <1>1. ASSUME \A r \in Ranges : Uploading(s, r) => Uploading(s, r)', Uploaded(s) => Uploaded(s)'
        PROVE  AccountOK(s)'
    <2>1. AccountOK(s) BY DEF AccountInv
    <2> QED BY <1>1, <2>1 DEF AccountOK, Below, Indexed
  <1>2. ASSUME NEW w \in Writers, Of(w) = s, job'[w].op = job[w].op, job'[w].at = job[w].at,
               job'[w].chunk = job[w].chunk, job'[w].todo = job[w].todo
        PROVE  RunAccounts(w)'
    <2>1. RunAccounts(w) BY DEF AccountInv
    <2> QED BY <1>2, <2>1 DEF RunAccounts, Below, Removing
  <1> QED BY <1>1, <1>2

LEMMA AccountAt ==
    ASSUME StoreInv, AccountInv, Kept' => Kept, NEW w \in Writers,
           Kept' => \A t \in Sessions : t # Of(w) =>
                      index'[t] = index[t] /\ saved'[t] = saved[t] /\ files'[t] = files[t],
           \A v \in Writers : v # w => /\ job'[v].op = job[v].op /\ job'[v].at = job[v].at
                                       /\ job'[v].chunk = job[v].chunk /\ job'[v].todo = job[v].todo,
           Kept' => \A v \in Writers : v # w /\ Of(v) = Of(w) => ~Works(v),
           Kept' => AccountOK(Of(w))' /\ RunAccounts(w)'
    PROVE  AccountInv'
  <1> SUFFICES ASSUME Kept', Kept
               PROVE  /\ \A s \in Sessions : AccountOK(s)'
                      /\ \A v \in Writers : RunAccounts(v)'
    BY DEF AccountInv
  <1>1. ASSUME NEW s \in Sessions PROVE AccountOK(s)'
    <2>1. CASE s = Of(w) BY <2>1
    <2>2. CASE s # Of(w)
      <3>1. \A r \in Ranges : Uploading(s, r) => Uploading(s, r)'
        BY <2>2 DEF Uploading, Writing
      <3>2. Uploaded(s) => Uploaded(s)' BY <2>2 DEF Uploaded, Publishes, Works
      <3> QED BY <2>2, <3>1, <3>2, AccountStays
    <2> QED BY <2>1, <2>2
  <1>2. ASSUME NEW v \in Writers PROVE RunAccounts(v)'
    <2>1. CASE v = w BY <2>1
    <2>2. CASE v # w /\ Of(v) # Of(w)
      <3>1. Of(v) \in Sessions BY JobFacts
      <3> QED BY <2>2, <3>1, AccountStays
    <2>3. CASE v # w /\ Of(v) = Of(w)
      <3>1. job'[v].op = "none" BY <2>3 DEF Works
      <3> QED BY <3>1 DEF RunAccounts, Removing
    <2> QED BY <2>1, <2>2, <2>3
  <1> QED BY <1>1, <1>2

(* Nobody uploads to a session but its one writer.                           *)
LEMMA NotUploading ==
    ASSUME NEW w \in Writers, \A v \in Writers : v # w /\ Of(v) = Of(w) => ~Works(v),
           ~Writing(w), ~(Publishes(w) /\ job[w].at = "return")
    PROVE  (\A r \in Ranges : ~Uploading(Of(w), r)) /\ ~Uploaded(Of(w))
  BY DEF Uploading, Uploaded, Writing, Works, Publishes

LEMMA AccountBegins ==
    ASSUME StoreInv, SavedInv, AccountInv, Kept' => Kept, NEW w \in Writers, ~Works(w),
           \A v \in Writers : v # w => job'[v] = job[v],
           job'[w].at = "load", job'[w].op \in {"delete", "register"},
           job'[w].op = "register" =>
             /\ StartsAt(Of(w), job'[w].chunk.from) /\ job'[w].chunk.from \in Nat
             /\ saved[Of(w)].offset > 0 => saved[Of(w)].version = doc[Of(w)].version,
           Calm' => \A v \in Writers : Of(v) = Of(w) => ~Works(v),
           UNCHANGED <<doc, saved, index, files>>
    PROVE  AccountInv'
  <1> DEFINE s == Of(w)
             n == job'[w].chunk.from
  <1>1. Kept' => \A v \in Writers : Of(v) = s => ~Works(v) BY DEF Kept, Read
  <1>2. ~Writing(w) /\ ~(Publishes(w) /\ job[w].at = "return") BY DEF Writing, Works, Publishes
  <1>3. Kept' => (\A r \in Ranges : ~Uploading(s, r)) /\ ~Uploaded(s) BY <1>1, <1>2, NotUploading
  <1>4. s \in Sessions BY JobFacts
  <1>5. Kept' => AccountOK(s)' BY <1>3, <1>4, AccountStays
  <1>6. ASSUME Kept', job'[w].op = "register" PROVE Below(s, n)
    <2>1. Below(s, saved[s].offset) BY <1>3, <1>4, <1>6 DEF AccountInv, AccountOK
    <2>2. saved[s].offset \in Nat /\ \A d \in index[s].chunks : d.from \in Nat /\ d.to \in Nat /\ d.from < d.to
      BY <1>4, SavedTypes
    <2>3. CASE saved[s].offset > 0
      <3>1. n = saved[s].offset BY <1>6, <2>3 DEF StartsAt
      <3> QED BY <2>1, <3>1
    <2>4. CASE saved[s].offset = 0
      <3>1. index[s].chunks = {} BY <2>1, <2>2, <2>4 DEF Below
      <3> QED BY <3>1 DEF Below
    <2> QED BY <2>2, <2>3, <2>4
  <1>7. Kept' => RunAccounts(w)' BY <1>6 DEF RunAccounts, Removing, Below
  <1> QED BY <1>1, <1>5, <1>7, AccountAt

LEMMA AccountLoad ==
    ASSUME StoreInv, AloneInv, AccountInv, Kept' => Kept, NEW w \in Writers, Load(w)
    PROVE  AccountInv'
  <1> DEFINE s == Of(w)
             c == job[w].chunk
  <1>1. PICK copy \in {index, NoIndex} :
             /\ Works(w) /\ job[w].at = "load"
             /\ \A v \in Writers : v # w => job'[v] = job[v]
             /\ UNCHANGED <<doc, saved, index, files>>
             /\ Read' => copy = index
             /\ \/ /\ job'[w] = After(w)
                   /\ \/ job[w].op = "delete" /\ ~copy[Of(w)].known
                      \/ job[w].op = "put" /\ job[w].chunk \in copy[Of(w)].chunks
                \/ /\ job'[w].op = job[w].op /\ job'[w].chunk = job[w].chunk
                   /\ job'[w].at = IF job[w].op = "register" THEN "save" ELSE "files"
                   /\ job[w].op = "delete" =>
                        job'[w].todo = {Range(d) : d \in copy[Of(w)].chunks}
    BY LoadFacts
  <1>2. Kept' => Calm BY DEF Kept, Read
  <1>3. Kept' => \A v \in Writers : v # w /\ Of(v) = s => ~Works(v) BY <1>1, <1>2 DEF AloneInv
  <1>4. ~Writing(w) /\ ~(Publishes(w) /\ job[w].at = "return") BY <1>1 DEF Writing
  <1>5. Kept' => (\A r \in Ranges : ~Uploading(s, r)) /\ ~Uploaded(s) BY <1>3, <1>4, NotUploading
  <1>6. s \in Sessions BY JobFacts
  <1>7. Kept' => AccountOK(s)' BY <1>1, <1>5, <1>6, AccountStays
  <1>8. ASSUME Kept' PROVE RunAccounts(w)'
    <2>1. RunAccounts(w) /\ copy = index BY <1>1, <1>8 DEF AccountInv, Kept
    <2>2. CASE job'[w].op = job[w].op /\ job'[w].chunk = c /\ job[w].op # "delete"
               /\ job'[w].at \notin {"load", "return"}
      BY <1>1, <2>1, <2>2 DEF RunAccounts, Removing, Below
    <2>3. CASE job'[w].op = "delete" /\ job'[w].at = "files"
               /\ job'[w].todo = {Range(d) : d \in index[s].chunks}
      <3>1. \A r \in Ranges : files[s][r] # 0 => Indexed(s, r)
        BY <1>5, <1>6, <1>8 DEF AccountInv, AccountOK
      <3>2. \A r \in Ranges : files[s][r] # 0 => r \in job'[w].todo BY <2>3, <3>1 DEF Indexed
      <3> QED BY <1>1, <2>3, <3>2 DEF RunAccounts, Removing
    <2>4. CASE job'[w] = After(w) /\ job[w].op = "delete" /\ ~index[s].known
      <3>1. Sound(index[s]) BY <1>6 DEF StoreInv, PastInv
      <3>2. index[s].chunks = {} BY <2>4, <3>1 DEF Sound, NoRow
      <3>3. \/ job'[w].op = "register" /\ job'[w].at = "load"
            \/ job'[w].op = "delete" /\ job'[w].at = "return"
        BY <1>1, <2>4, AfterFacts
      <3> QED BY <1>1, <3>2, <3>3 DEF RunAccounts, Removing, Below
    <2>5. ~(job[w].op = "put" /\ c \in index[s].chunks)
      <3> SUFFICES ASSUME job[w].op = "put", c \in index[s].chunks PROVE FALSE OBVIOUS
      <3>1. c.to <= c.from BY <1>1, <2>1 DEF RunAccounts, Below
      <3>2. c.from \in Nat /\ c.to \in Nat /\ c.from < c.to BY <1>6, SavedTypes
      <3> QED BY <3>1, <3>2
    <2>6. job[w].op \in {"register", "put", "delete"} BY <1>1, AfterFacts
    <2> QED BY <1>1, <2>1, <2>2, <2>3, <2>4, <2>5, <2>6
  <1> QED BY <1>1, <1>3, <1>7, <1>8, AccountAt

LEMMA AccountFiles ==
    ASSUME StoreInv, AloneInv, AccountInv, Kept' => Kept, NEW w \in Writers, Files(w)
    PROVE  AccountInv'
  <1> DEFINE s == Of(w)
             r0 == Range(job[w].chunk)
  <1>1. /\ Works(w) /\ job[w].at = "files"
        /\ \A v \in Writers : v # w => job'[v] = job[v]
        /\ job'[w].op = job[w].op /\ job'[w].chunk = job[w].chunk
        /\ UNCHANGED <<doc, saved, index>>
        /\ \/ /\ job[w].op = "put" /\ job'[w].at = "save"
              /\ files' = [files EXCEPT ![s][r0] = job[w].data]
           \/ /\ job[w].op = "delete" /\ job'[w].at = "files"
              /\ \E r \in job[w].todo : /\ files' = [files EXCEPT ![s][r] = 0]
                                        /\ job'[w].todo = job[w].todo \ {r}
           \/ /\ job[w].op = "delete" /\ job'[w].at = "save"
              /\ job[w].todo = {} /\ job'[w].todo = {} /\ files' = files
    BY FilesFacts
  <1>2. Kept' => Calm BY DEF Kept, Read
  <1>3. Kept' => \A v \in Writers : v # w /\ Of(v) = s => ~Works(v) BY <1>1, <1>2 DEF AloneInv
  <1>4. ~Writing(w) /\ ~(Publishes(w) /\ job[w].at = "return") BY <1>1 DEF Writing
  <1>5. Kept' => (\A r \in Ranges : ~Uploading(s, r)) /\ ~Uploaded(s) BY <1>3, <1>4, NotUploading
  <1>6. s \in Sessions /\ files \in [Sessions -> [Ranges -> 0 .. MaxVersion]]
        /\ job[w] \in Jobs /\ JobOK(w, job[w])
    BY JobFacts, ChunksOfRows
  <1>7. job[w].todo \subseteq Ranges BY <1>6 DEF Jobs
  <1>8. \A t \in Sessions : t # s => files'[t] = files[t] BY <1>1, <1>6
  <1>9. ASSUME Kept'
        PROVE  /\ RunAccounts(w) /\ \A r \in Ranges : files[s][r] # 0 => Indexed(s, r)
               /\ Below(s, saved[s].offset) /\ (index[s].deleted => index[s].chunks = {})
    BY <1>5, <1>6, <1>9 DEF AccountInv, AccountOK
  <1>10. ASSUME Kept', job[w].op = "put" PROVE AccountOK(s)' /\ RunAccounts(w)'
    <2>1. \A r \in Ranges : r # r0 => files'[s][r] = files[s][r]
      BY <1>1, <1>6, <1>10
    <2>2. \A r \in Ranges : r = r0 => Uploading(s, r)' BY <1>1, <1>10 DEF Uploading, Writing
    <2>3. \A r \in Ranges : files'[s][r] # 0 => Indexed(s, r) \/ Uploading(s, r)'
      BY <1>9, <1>10, <2>1, <2>2
    <2>4. AccountOK(s)' BY <1>1, <1>9, <1>10, <2>3 DEF AccountOK, Below, Indexed
    <2>5. RunAccounts(w)' BY <1>1, <1>9, <1>10 DEF RunAccounts, Removing, Below
    <2> QED BY <2>4, <2>5
  <1>11. ASSUME Kept', job[w].op = "delete" PROVE AccountOK(s)' /\ RunAccounts(w)'
    <2>1. Removing(w) /\ \A r \in Ranges : files[s][r] # 0 => r \in job[w].todo
      BY <1>1, <1>9, <1>11 DEF RunAccounts, Removing
    <2>2. \A r \in Ranges : files'[s][r] # 0 => files[s][r] # 0 /\ r \in job'[w].todo
      <3>1. CASE files' = files /\ job[w].todo = {} BY <2>1, <3>1
      <3>2. ASSUME NEW r \in job[w].todo, files' = [files EXCEPT ![s][r] = 0],
                   job'[w].todo = job[w].todo \ {r}
            PROVE  \A q \in Ranges : files'[s][q] # 0 => files[s][q] # 0 /\ q \in job'[w].todo
        <4>1. r \in Ranges BY <1>7
        <4>2. files'[s][r] = 0 /\ \A q \in Ranges : q # r => files'[s][q] = files[s][q]
          BY <1>6, <3>2, <4>1
        <4> QED BY <2>1, <3>2, <4>2
      <3> QED BY <1>1, <1>11, <3>1, <3>2
    <2>3. AccountOK(s)' BY <1>1, <1>9, <1>11, <2>2 DEF AccountOK, Below, Indexed
    <2>4. RunAccounts(w)' BY <1>1, <1>11, <2>2 DEF RunAccounts, Removing
    <2> QED BY <2>3, <2>4
  <1>12. Kept' => AccountOK(s)' /\ RunAccounts(w)' BY <1>1, <1>10, <1>11
  <1> QED BY <1>1, <1>3, <1>8, <1>12, AccountAt

LEMMA AccountSave ==
    ASSUME StoreInv, AloneInv, SavedInv, AccountInv, Kept' => Kept, NEW w \in Writers, Save(w)
    PROVE  AccountInv'
  <1> DEFINE s == Of(w)
             c == job[w].chunk
  <1>1. /\ Works(w) /\ job[w].at = "save" /\ job'[w] = After(w)
        /\ \A v \in Writers : v # w =>
                /\ job'[v].op = job[v].op /\ job'[v].at = job[v].at
                /\ job'[v].chunk = job[v].chunk /\ job'[v].todo = job[v].todo
        /\ UNCHANGED <<doc, saved, files>>
        /\ Kept' => \A t \in Sessions : t # s => index'[t] = index[t]
        /\ Kept' => index'[s] = Effect(job[w].op, index[s], c)
    BY SaveFacts DEF Kept
  <1>2. Kept' => Read /\ Calm BY DEF Kept, Read
  <1>3. Kept' => \A v \in Writers : v # w /\ Of(v) = s => ~Works(v) BY <1>1, <1>2 DEF AloneInv
  <1>4. s \in Sessions /\ index[s] \in Contract!Row BY JobFacts, SavedTypes
  <1>5. /\ \A d \in index[s].chunks : d.from \in Nat /\ d.to \in Nat /\ d.from < d.to
        /\ job[w].op = "put" => c \in Chunks /\ c.from \in Nat /\ c.to \in Nat /\ c.from < c.to
    BY <1>4, SavedTypes, JobFacts DEF JobOK
  <1>6. ~Uploaded(s) \/ ~Kept' BY <1>1, <1>3 DEF Uploaded, Publishes
  <1>7. ASSUME Kept'
        PROVE  /\ RunAccounts(w) /\ \A r \in Ranges : files[s][r] # 0 => Indexed(s, r) \/ Uploading(s, r)
               /\ Below(s, saved[s].offset) /\ (index[s].deleted => index[s].chunks = {})
    BY <1>4, <1>6, <1>7 DEF AccountInv, AccountOK
  <1>8. ASSUME Kept' PROVE \A r \in Ranges : Uploading(s, r) => job[w].op = "put" /\ r = Range(c)
    BY <1>3, <1>8 DEF Uploading, Writing, Works
  <1>9. ASSUME Kept', job[w].op = "register" PROVE AccountOK(s)' /\ RunAccounts(w)'
    <2>1. index'[s] = [index[s] EXCEPT !.known = TRUE, !.deleted = FALSE] BY <1>1, <1>9 DEF Effect
    <2>2. index'[s].chunks = index[s].chunks /\ ~index'[s].deleted BY <1>4, <2>1 DEF Contract!Row
    <2>3. \A r \in Ranges : files[s][r] # 0 => Indexed(s, r) BY <1>7, <1>8, <1>9
    <2>4. AccountOK(s)' BY <1>1, <1>7, <1>9, <2>2, <2>3 DEF AccountOK, Below, Indexed
    <2>5. \/ job'[w].op = "none"
          \/ job'[w].op = "put" /\ job'[w].at = "load" /\ job'[w].chunk = c
      BY <1>1, <1>9, AfterFacts, IdleFacts
    <2>6. RunAccounts(w)' BY <1>1, <1>7, <1>9, <2>2, <2>5 DEF RunAccounts, Removing, Below
    <2> QED BY <2>4, <2>6
  <1>10. ASSUME Kept', job[w].op = "put" PROVE AccountOK(s)' /\ RunAccounts(w)'
    <2>1. index'[s] = [index[s] EXCEPT !.known = TRUE, !.chunks = {d \in @ : d.from # c.from} \cup {c}]
      BY <1>1, <1>10 DEF Effect
    <2>2. /\ index'[s].chunks = {d \in index[s].chunks : d.from # c.from} \cup {c}
          /\ index'[s].deleted = index[s].deleted
      BY <1>4, <2>1 DEF Contract!Row
    <2>3. Below(s, c.from) BY <1>1, <1>7, <1>10 DEF RunAccounts
    <2>4. \A d \in index[s].chunks : d.to <= c.from /\ d.from # c.from
      BY <1>5, <1>10, <2>3 DEF Below
    <2>5. index'[s].chunks = index[s].chunks \cup {c} BY <2>2, <2>4
    <2>6. \A r \in Ranges : files[s][r] # 0 => \E d \in index'[s].chunks : Range(d) = r
      BY <1>7, <1>8, <1>10, <2>5 DEF Indexed
    <2>7. \A d \in index'[s].chunks : d.to <= c.to BY <1>5, <1>10, <2>4, <2>5
    <2>8. job'[w].op = "put" /\ job'[w].at = "return" /\ job'[w].chunk = c
      BY <1>1, <1>10, AfterFacts
    <2>9. RunAccounts(w)' BY <2>7, <2>8 DEF RunAccounts, Removing, Below
    <2>10. IsPublisher(w) /\ Publishes(w) BY <1>1, <1>10 DEF AloneInv, Publishes
    <2>11. ~index[s].deleted BY <1>2, <1>10, <2>10 DEF SavedInv, RunBuilds
    <2>12. Uploaded(s)' BY <2>8, <2>10 DEF Uploaded, Publishes, Works
    <2>13. AccountOK(s)' BY <1>1, <2>2, <2>6, <2>11, <2>12 DEF AccountOK, Indexed
    <2> QED BY <2>9, <2>13
  <1>11. ASSUME Kept', job[w].op = "delete" PROVE AccountOK(s)' /\ RunAccounts(w)'
    <2>1. index'[s] = [index[s] EXCEPT !.chunks = {}, !.deleted = TRUE] BY <1>1, <1>11 DEF Effect
    <2>2. index'[s].chunks = {} BY <1>4, <2>1 DEF Contract!Row
    <2>3. \A r \in Ranges : files[s][r] = 0
      BY <1>1, <1>7, <1>11 DEF RunAccounts, Removing
    <2>4. AccountOK(s)' BY <1>1, <2>2, <2>3 DEF AccountOK, Below
    <2>5. \/ job'[w].op = "register" /\ job'[w].at = "load"
          \/ job'[w].op = "delete" /\ job'[w].at = "return"
      BY <1>1, <1>11, AfterFacts
    <2>6. RunAccounts(w)' BY <2>2, <2>5 DEF RunAccounts, Removing, Below
    <2> QED BY <2>4, <2>6
  <1>12. job[w].op \in {"register", "put", "delete"} BY <1>1, AfterFacts
  <1>13. Kept' => AccountOK(s)' /\ RunAccounts(w)' BY <1>9, <1>10, <1>11, <1>12
  <1> QED BY <1>1, <1>3, <1>13, AccountAt

LEMMA AccountReturn ==
    ASSUME StoreInv, AloneInv, AccountInv, Kept' => Kept, NEW w \in Writers, Return(w)
    PROVE  AccountInv'
  <1> DEFINE s == Of(w)
             c == job[w].chunk
  <1>1. /\ Works(w) /\ job[w].at = "return" /\ job'[w] = NoJob
        /\ \A v \in Writers : v # w => job'[v] = job[v]
        /\ UNCHANGED <<doc, index, files, mishaps>>
        /\ \A t \in Sessions : t # s => saved'[t] = saved[t]
        /\ IsPublisher(w) =>
             /\ job[w].op = "put"
             /\ saved'[s] = [version |-> c.version, offset |-> c.to]
        /\ ~IsPublisher(w) => saved'[s] = NothingSaved
    BY ReturnFacts
  <1>2. Kept' => Calm BY DEF Kept, Read
  <1>3. Kept' => \A v \in Writers : v # w /\ Of(v) = s => ~Works(v) BY <1>1, <1>2 DEF AloneInv
  <1>4. s \in Sessions /\ JobOK(w, job[w]) BY JobFacts
  <1>5. RunAccounts(w)' BY <1>1, IdleFacts DEF RunAccounts, Removing
  <1>6. ASSUME Kept' PROVE AccountOK(s)'
    <2>1. AccountOK(s) /\ RunAccounts(w) BY <1>4, <1>6 DEF AccountInv
    <2>2. ~Writing(w) BY <1>1 DEF Writing
    <2>3. \A r \in Ranges : ~Uploading(s, r) BY <1>3, <1>6, <2>2 DEF Uploading, Writing, Works
    <2>4. Below(s, saved[s].offset)'
      <3>1. CASE IsPublisher(w)
        <4>1. Below(s, c.to) BY <1>1, <2>1, <3>1 DEF RunAccounts
        <4>2. saved'[s].offset = c.to BY <1>1, <3>1
        <4> QED BY <1>1, <4>1, <4>2 DEF Below
      <3>2. CASE ~IsPublisher(w)
        <4>1. job[w].op = "delete" BY <1>1, <1>4, <3>2 DEF JobOK, AloneInv
        <4>2. index[s].chunks = {} BY <1>1, <2>1, <4>1 DEF RunAccounts
        <4> QED BY <1>1, <4>2 DEF Below
      <3> QED BY <3>1, <3>2
    <2> QED BY <1>1, <2>1, <2>3, <2>4 DEF AccountOK, Indexed
  <1> QED BY <1>1, <1>3, <1>5, <1>6, AccountAt

LEMMA AccountEnd ==
    ASSUME StoreInv, AloneInv, AccountInv, Kept' => Kept, NEW w \in Writers, End(w)
    PROVE  AccountInv'
  <1>1. /\ Works(w) /\ job'[w] = NoJob
        /\ \A v \in Writers : v # w => job'[v] = job[v]
        /\ UNCHANGED <<doc, saved, index, files>>
        /\ Kept' => job[w].at = "load"
    BY EndFacts
  <1>2. Kept' => Calm BY DEF Kept, Read
  <1>3. Kept' => \A v \in Writers : v # w /\ Of(v) = Of(w) => ~Works(v) BY <1>1, <1>2 DEF AloneInv
  <1>4. Kept' => ~Writing(w) /\ ~(Publishes(w) /\ job[w].at = "return") BY <1>1 DEF Writing
  <1>5. Kept' => (\A r \in Ranges : ~Uploading(Of(w), r)) /\ ~Uploaded(Of(w))
    BY <1>3, <1>4, NotUploading
  <1>6. Kept' => AccountOK(Of(w))' BY <1>1, <1>5, AccountStays, JobFacts
  <1>7. RunAccounts(w)' BY <1>1, IdleFacts DEF RunAccounts, Removing
  <1> QED BY <1>1, <1>3, <1>6, <1>7, AccountAt

LEMMA AccountStep ==
    ASSUME StoreInv, AloneInv, SavedInv, AccountInv, [Next]_vars
    PROVE  AccountInv'
  <1>0. Kept' => Kept BY MishapsGrow
  <1>1. ASSUME UNCHANGED <<saved, index, job, files>> PROVE AccountInv'
    <2>1. \A s \in Sessions : \A r \in Ranges : Uploading(s, r) => Uploading(s, r)'
      BY <1>1 DEF Uploading, Writing
    <2>2. \A s \in Sessions : Uploaded(s) => Uploaded(s)' BY <1>1 DEF Uploaded, Publishes, Works
    <2>3. Kept' => \A s \in Sessions : AccountOK(s)' BY <1>0, <1>1, <2>1, <2>2, AccountStays
    <2>4. Kept' => \A w \in Writers : RunAccounts(w)' BY <1>0, <1>1, WriterTypes, AccountStays
    <2> QED BY <2>3, <2>4 DEF AccountInv
  <1>2. CASE UNCHANGED vars
    <2>1. UNCHANGED <<saved, index, job, files>> BY <1>2 DEF vars
    <2> QED BY <1>1, <2>1
  <1>3. ASSUME NEW s \in Sessions, Publish(s) PROVE AccountInv'
    <2>1. PICK w \in Writers : w = <<s, "publish">> BY IdleFacts
    <2> QED BY <1>0, <1>3, <2>1, PublishFacts, AccountBegins
  <1>4. ASSUME NEW s \in Edited, Unpublish(s) PROVE AccountInv'
    <2>1. PICK w \in Writers : w = <<s, "unpublish">> BY IdleFacts
    <2> QED BY <1>0, <1>4, <2>1, UnpublishFacts, AccountBegins
  <1>5. ASSUME NEW s \in Edited, Grow(s) \/ Rewrite(s) PROVE AccountInv'
    <2>1. UNCHANGED <<saved, index, job, files>> BY <1>5 DEF Grow, Rewrite
    <2> QED BY <1>1, <2>1
  <1> QED BY <1>0, <1>2, <1>3, <1>4, <1>5,
             AccountLoad, AccountFiles, AccountSave, AccountReturn, AccountEnd DEF Next

LEMMA AccountInvariant == Spec => []AccountInv
  <1>1. Init => AccountInv
    <2> SUFFICES ASSUME Init PROVE AccountInv OBVIOUS
    <2>1. \A s \in Sessions : AccountOK(s)
      BY DEF Init, AccountOK, Below, NoIndex, NoRow
    <2>2. \A w \in Writers : RunAccounts(w) BY IdleFacts DEF Init, RunAccounts, Removing
    <2> QED BY <2>1, <2>2 DEF AccountInv
  <1>2. StoreInv /\ AloneInv /\ SavedInv /\ AccountInv /\ [Next]_vars => AccountInv' BY AccountStep
  <1> QED BY <1>1, <1>2, SavedInvariant, PTL DEF Spec

(* "delete every published byte": once a session is deleted, and nobody works*)
(* on it, no file of it is left in the folder.                               *)
THEOREM DeleteLeavesNothingAlways == Spec => []DeleteLeavesNothing
  <1>1. AccountInv => DeleteLeavesNothing
    <2> SUFFICES ASSUME AccountInv, Kept, NEW s \in Sessions, index[s].deleted, Busy(s) = {},
                        NEW r \in Ranges
                 PROVE  files[s][r] = 0
      BY DEF DeleteLeavesNothing, Unless, Kept, Read, Calm
    <2>1. ~Uploading(s, r) BY DEF Busy, Uploading, Writing
    <2>2. AccountOK(s) BY DEF AccountInv
    <2> QED BY <2>1, <2>2 DEF AccountOK, Indexed
  <1> QED BY <1>1, AccountInvariant, PTL
=============================================================================
