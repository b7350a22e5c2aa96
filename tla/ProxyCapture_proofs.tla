------------------------- MODULE ProxyCapture_proofs -------------------------
(***************************************************************************)
(* The capture implements the abstract log, for any number of clients, any *)
(* of which may leave.  That the finished document is what was recorded is *)
(* not inductive: until it is removed the temporary file has to hold what  *)
(* was recorded, the document to be a prefix of it, and the point at which *)
(* the reading ended to lie within it.                                     *)
(*                                                                         *)
(* That a clean shutdown misses no exchange of a connected client needs    *)
(* that what was handed over is in the queue until it settled, and at each *)
(* point of the shutdown what can no longer be before that point.          *)
(***************************************************************************)
EXTENDS ProxyCapture, FiniteSetTheorems, SequenceTheorems, TLAPS

Recorded == { recorded[i] : i \in 1 .. Len(recorded) }

\* Each exchange is written at one point of its way, and no other.
WrittenOnce ==
  /\ \A r \in Recorded : stage[r] \in {"counting", "validating", "validated"}
  /\ started <=> recorded # <<>>

\* Until the temporary file is removed it holds what was recorded.
FileHolds == main # "finished" => IF recorded = <<>> THEN tmp = None ELSE tmp = recorded

\* The document begins like what was recorded.
Copied ==
  main = "assembling" =>
    /\ har \in Seq(Requests)
    /\ Len(har) <= Len(recorded)
    /\ \A i \in 1 .. Len(har) : har[i] = recorded[i]

\* The reading ends once, within what was recorded, and if it has not ended there is
\* a file to read.
Sealed ==
  /\ eof # None => eof <= Len(recorded)
  /\ main \in {"serving", "closing", "draining", "flushing", "crashed"} => eof = None
  /\ main = "assembling" /\ eof = None => tmp # None

Inv == TypeOK /\ WrittenOnce /\ FileHolds /\ Copied /\ Sealed

LEMMA AppendRecorded ==
  ASSUME TypeOK, NEW r \in Requests, recorded' = Append(recorded, r)
  PROVE  /\ recorded' \in Seq(Requests) /\ recorded' # <<>>
         /\ Len(recorded') = Len(recorded) + 1
         /\ \A i \in 1 .. Len(recorded) : recorded'[i] = recorded[i]
         /\ Recorded' = Recorded \cup {r}
<1>1. recorded \in Seq(Requests) /\ Len(recorded) \in Nat
  BY DEF TypeOK
<1>2. /\ recorded' \in Seq(Requests) /\ recorded' # <<>>
      /\ Len(recorded') = Len(recorded) + 1
      /\ \A i \in 1 .. Len(recorded) : recorded'[i] = recorded[i]
      /\ recorded'[Len(recorded) + 1] = r
  BY <1>1, AppendProperties
<1>3. \A i \in 1 .. Len(recorded') : i \in 1 .. Len(recorded) \/ i = Len(recorded) + 1
  BY <1>1, <1>2
<1>4. Recorded' = Recorded \cup {r}
  BY <1>1, <1>2, <1>3 DEF Recorded
<1> QED
  BY <1>2, <1>4

LEMMA RecordedType == TypeOK => Recorded \subseteq Requests
  BY ElementOfSeq DEF TypeOK, Recorded

LEMMA InitHolds == Init => Inv
<1> SUFFICES ASSUME Init PROVE Inv
  OBVIOUS
<1>1. TypeOK
  <2>1. <<>> \in Seq(Requests) /\ Len(<<>>) = 0 /\ 0 \in 0 .. 0
    BY EmptySeq
  <2>2. NoReport \in [ count : Nat, exchanges : SUBSET Requests ]
    BY DEF NoReport
  <2> QED
    BY <2>1, <2>2 DEF Init, TypeOK, Stages
<1>2. WrittenOnce /\ FileHolds /\ Copied /\ Sealed
  BY DEF Init, WrittenOnce, FileHolds, Copied, Sealed, Recorded
<1> QED
  BY <1>1, <1>2 DEF Inv

\* handleRequest: only the stages of requests and the queue change, and a
\* request that is not handed over yet is not recorded.
LEMMA RequestsKeep ==
  ASSUME Inv, NEW r \in Requests, Arrive(r) \/ Disconnect(r) \/ Handle(r)
  PROVE  Inv'
<1>1. /\ stage[r] \in {"idle", "reading", "upstream"}
      /\ \E to \in Stages : stage' = [ stage EXCEPT ![r] = to ]
      /\ client' \in [Requests -> BOOLEAN]
      /\ queue' = queue \/ queue' = Append(queue, r)
      /\ done' = done
      /\ UNCHANGED <<ensured, started, count, tmp, recorded, main, awaited, har, eof, report>>
  <2>1. CASE Arrive(r) \/ Disconnect(r)
    BY <2>1 DEF Arrive, Disconnect, Go, Stages, Inv, TypeOK, writer, command
  <2>2. CASE Handle(r)
    BY <2>2 DEF Handle, Forward, Answer, NoAnswer, Go, Stages, Inv, TypeOK, writer, command
  <2> QED
    BY <2>1, <2>2
<1>2. r \notin Recorded
  BY <1>1 DEF Inv, WrittenOnce
<1>3. TypeOK'
  <2>1. queue' \in Seq(Requests) /\ done' \in 0 .. Len(queue')
    <3>1. queue \in Seq(Requests) /\ Len(queue) \in Nat /\ done \in 0 .. Len(queue)
      BY LenProperties DEF Inv, TypeOK
    <3>2. queue' \in Seq(Requests) /\ (Len(queue') = Len(queue) \/ Len(queue') = Len(queue) + 1)
      BY <1>1, <3>1, AppendProperties
    <3> QED
      BY <1>1, <3>1, <3>2
  <2> QED
    BY <1>1, <2>1 DEF Inv, TypeOK
<1>4. WrittenOnce'
  <2>1. \A q \in Recorded : q # r /\ q \in Requests
    BY <1>2, RecordedType DEF Inv
  <2>2. \A q \in Recorded : stage'[q] = stage[q]
    BY <1>1, <2>1 DEF Inv, TypeOK
  <2>3. Recorded' = Recorded
    BY <1>1 DEF Recorded
  <2> QED
    BY <1>1, <2>2, <2>3 DEF Inv, WrittenOnce
<1>5. FileHolds' /\ Copied' /\ Sealed'
  BY <1>1 DEF Inv, FileHolds, Copied, Sealed
<1> QED
  BY <1>3, <1>4, <1>5 DEF Inv

\* A task writes the line of its exchange once.
LEMMA TaskKeeps == ASSUME Inv, NEW r \in Requests, Task(r) PROVE Inv'
<1>1. /\ done < Len(queue)
      /\ UNCHANGED <<client, queue, main, awaited, har, eof, report>>
  BY DEF Task, StartTask, EnsureDirectory, Write, WriteFails, Count, Validate, IsHead, command
<1>2. CASE Write(r)
  <2>1. /\ stage[r] = "writing" /\ stage' = [ stage EXCEPT ![r] = "counting" ]
        /\ tmp' = Append(Before, r) /\ recorded' = Append(recorded, r) /\ started' = TRUE
        /\ UNCHANGED <<done, ensured, count>>
    BY <1>2 DEF Write, IsHead, Go
  <2>2. Before = IF started /\ tmp # None THEN tmp ELSE <<>>
    BY DEF Before
  <2>3. Before \in Seq(Requests)
    BY <2>2 DEF Inv, TypeOK
  <2>4. /\ recorded' \in Seq(Requests) /\ recorded' # <<>>
        /\ Len(recorded') = Len(recorded) + 1
        /\ \A i \in 1 .. Len(recorded) : recorded'[i] = recorded[i]
        /\ Recorded' = Recorded \cup {r}
    BY <2>1, AppendRecorded DEF Inv
  <2>5. TypeOK'
    BY <1>1, <2>1, <2>3, <2>4 DEF Inv, TypeOK, Stages
  <2>6. WrittenOnce'
    <3>1. \A q \in Recorded : q # r /\ q \in Requests
      BY <2>1, RecordedType DEF Inv, WrittenOnce
    <3> QED
      BY <2>1, <2>4, <3>1 DEF Inv, TypeOK, WrittenOnce
  <2>7. FileHolds'
    BY <1>1, <2>1, <2>2, <2>4, Clients DEF Inv, TypeOK, FileHolds, WrittenOnce
  <2>8. Copied'
    <3> SUFFICES ASSUME main = "assembling"
                 PROVE  /\ har \in Seq(Requests) /\ Len(har) <= Len(recorded')
                        /\ \A i \in 1 .. Len(har) : har[i] = recorded'[i]
      BY <1>1 DEF Copied
    <3>1. /\ har \in Seq(Requests) /\ Len(har) <= Len(recorded)
          /\ \A i \in 1 .. Len(har) : har[i] = recorded[i]
      BY DEF Inv, Copied
    <3>2. Len(har) \in Nat /\ Len(recorded) \in Nat
      BY <3>1, LenProperties DEF Inv, TypeOK
    <3>3. \A i \in 1 .. Len(har) : i \in 1 .. Len(recorded)
      BY <3>1, <3>2
    <3> QED
      BY <2>4, <3>1, <3>2, <3>3
  <2>9. Sealed'
    <3>1. Len(recorded) \in Nat /\ eof \in Nat \cup {None} /\ None \notin Nat
      BY Clients, LenProperties DEF Inv, TypeOK
    <3>2. tmp' # None
      BY <2>1, <2>3, AppendProperties, Clients
    <3> QED
      BY <1>1, <2>4, <3>1, <3>2 DEF Inv, Sealed
  <2> QED
    BY <2>5, <2>6, <2>7, <2>8, <2>9 DEF Inv
<1>3. CASE StartTask(r) \/ EnsureDirectory(r) \/ WriteFails(r) \/ Count(r) \/ Validate(r)
  <2>1. /\ UNCHANGED <<tmp, recorded, started>> /\ ensured' \in BOOLEAN
        /\ count' \in Nat /\ done' \in {done, done + 1}
        /\ \E to \in Stages : /\ stage' = [ stage EXCEPT ![r] = to ]
                              /\ stage[r] \in {"counting", "validating", "validated"}
                                   => to \in {"counting", "validating", "validated"}
    <3>1. CASE StartTask(r)
      BY <3>1 DEF StartTask, IsHead, Go, Stages, Inv, TypeOK, writer
    <3>2. CASE EnsureDirectory(r)
      BY <3>2 DEF EnsureDirectory, IsHead, Go, EndTask, Stages, Inv, TypeOK
    <3>3. CASE WriteFails(r)
      BY <3>3 DEF WriteFails, IsHead, Go, EndTask, Stages, Inv, TypeOK
    <3>4. CASE Count(r)
      BY <3>4 DEF Count, IsHead, Go, Stages, Inv, TypeOK
    <3>5. CASE Validate(r)
      BY <3>5 DEF Validate, IsHead, Go, EndTask, Stages, Inv, TypeOK, writer
    <3> QED
      BY <1>3, <3>1, <3>2, <3>3, <3>4, <3>5
  <2>2. TypeOK'
    BY <1>1, <2>1 DEF Inv, TypeOK
  <2>3. WrittenOnce'
    BY <2>1 DEF Inv, TypeOK, WrittenOnce, Recorded
  <2>4. FileHolds' /\ Copied' /\ Sealed'
    BY <1>1, <2>1 DEF Inv, FileHolds, Copied, Sealed
  <2> QED
    BY <2>2, <2>3, <2>4 DEF Inv
<1> QED
  BY <1>2, <1>3 DEF Task

\* The shutdown copies what was recorded, and removes the file at its end only.
LEMMA ShutdownKeeps ==
  ASSUME Inv, Signal \/ (\E r \in Requests : Rejected(r)) \/ Shutdown
  PROVE  Inv'
<1>1. /\ UNCHANGED <<stage, client, queue, done, started, count, recorded>>
      /\ main # "finished"
  BY DEF Signal, Rejected, Shutdown, Closed, Drained, OpenDocument, EndOfFile, CopyLine,
         CloseDocument, Finish, traffic, writer
<1>2. Recorded' = Recorded
  BY <1>1 DEF Recorded
<1>3. WrittenOnce'
  BY <1>1, <1>2 DEF Inv, WrittenOnce
<1>4. done \in Nat /\ \A S \in SUBSET Requests : Cardinality(S) \in Nat
  BY Clients, FS_Subset, FS_CardinalityType DEF Inv, TypeOK
<1>5. Writing \in SUBSET Requests
  BY DEF Writing
<1>6. /\ None \notin Nat /\ None \notin Seq(Requests)
      /\ recorded \in Seq(Requests) /\ Len(recorded) \in Nat
  BY Clients, LenProperties DEF Inv, TypeOK
<1>7. CASE Signal \/ (\E r \in Requests : Rejected(r)) \/ Closed \/ Drained
  <2>1. /\ main \in {"serving", "closing", "draining"}
        /\ main' \in {"closing", "draining", "flushing", "crashed"} /\ awaited' \in Nat
        /\ UNCHANGED <<ensured, tmp, har, eof, report>>
    <3>1. done \in Nat /\ Cardinality(Writing) \in Nat /\ awaited \in Nat
      BY <1>4, <1>5 DEF Inv, TypeOK
    <3>2. Len(queue) \in Nat
      BY LenProperties DEF Inv, TypeOK
    <3>3. CASE Signal \/ \E r \in Requests : Rejected(r)
      BY <3>1, <3>3 DEF Signal, Rejected, writer
    <3>4. CASE Closed
      BY <3>2, <3>4 DEF Closed, writer
    <3>5. CASE Drained
      BY <3>1, <3>5 DEF Drained, writer
    <3> QED
      BY <1>7, <3>3, <3>4, <3>5
  <2>2. TypeOK'
    BY <1>1, <2>1 DEF Inv, TypeOK
  <2>3. FileHolds' /\ Copied' /\ Sealed'
    BY <1>1, <2>1 DEF Inv, FileHolds, Copied, Sealed
  <2> QED
    BY <1>3, <2>2, <2>3 DEF Inv
<1>8. CASE OpenDocument
  <2>1. /\ ensured' \in BOOLEAN /\ main = "flushing" /\ eof = None
        /\ \/ main' = "assembling" /\ har' = <<>> /\ eof' = IF tmp = None THEN 0 ELSE eof
           \/ main' = "failed" /\ har' = har /\ eof' = eof
        /\ UNCHANGED <<tmp, awaited, report>>
    BY <1>8 DEF OpenDocument, Inv, TypeOK, Sealed
  <2>2. <<>> \in Seq(Requests) /\ Len(<<>>) = 0
    OBVIOUS
  <2>3. TypeOK'
    <3>1. /\ har' = <<>> \/ har' = har
          /\ eof' = 0 \/ eof' = eof
          /\ main' \in {"assembling", "failed"}
      BY <2>1
    <3>2. har' \in Seq(Requests) \cup {None}
      BY <2>2, <3>1 DEF Inv, TypeOK
    <3>3. eof' \in Nat \cup {None}
      BY <3>1 DEF Inv, TypeOK
    <3> QED
      BY <1>1, <2>1, <3>1, <3>2, <3>3 DEF Inv, TypeOK
  <2>4. FileHolds' /\ Copied'
    <3>1. FileHolds'
      BY <1>1, <2>1 DEF Inv, FileHolds
    <3>2. Copied'
      BY <1>1, <1>6, <2>1, <2>2 DEF Copied
    <3> QED
      BY <3>1, <3>2
  <2>5. Sealed'
    BY <1>1, <1>6, <2>1 DEF Sealed
  <2> QED
    BY <1>3, <2>3, <2>4, <2>5 DEF Inv
<1>9. CASE EndOfFile
  <2>1. /\ main = "assembling" /\ eof = None /\ eof' = Len(tmp)
        /\ UNCHANGED <<ensured, tmp, main, awaited, har, report>>
    BY <1>9 DEF EndOfFile, writer
  <2>2. tmp = recorded
    BY <1>6, <2>1 DEF Inv, FileHolds, Sealed
  <2>3. TypeOK' /\ FileHolds' /\ Copied'
    BY <1>1, <1>6, <2>1, <2>2 DEF Inv, TypeOK, FileHolds, Copied
  <2>4. Sealed'
    BY <1>1, <1>6, <2>1, <2>2 DEF Sealed
  <2> QED
    BY <1>3, <2>3, <2>4 DEF Inv
<1>10. CASE CopyLine
  <2>1. /\ main = "assembling" /\ Len(har) < IF eof = None THEN Len(tmp) ELSE eof
        /\ (har' = Append(har, tmp[Len(har) + 1]) /\ main' = main) \/ (har' = har /\ main' = "failed")
        /\ UNCHANGED <<ensured, tmp, awaited, eof, report>>
    BY <1>10 DEF CopyLine, writer
  <2>2. har \in Seq(Requests) /\ Len(har) \in Nat /\ \A i \in 1 .. Len(har) : har[i] = recorded[i]
    BY <2>1, LenProperties DEF Inv, Copied
  <2>3. Len(har) < Len(recorded) /\ tmp = recorded
    <3>1. CASE eof = None
      BY <1>6, <2>1, <3>1 DEF Inv, FileHolds, Sealed
    <3>2. CASE eof # None
      <4>1. eof \in Nat /\ eof <= Len(recorded) /\ Len(har) < eof
        BY <2>1, <3>2 DEF Inv, TypeOK, Sealed
      <4>2. recorded # <<>>
        BY <1>6, <2>2, <4>1
      <4> QED
        BY <1>6, <2>1, <2>2, <4>1, <4>2 DEF Inv, FileHolds
    <3> QED
      BY <3>1, <3>2
  <2>4. tmp[Len(har) + 1] \in Requests
    BY <1>6, <2>2, <2>3, ElementOfSeq
  <2> DEFINE longer == Append(har, tmp[Len(har) + 1])
  <2>5. /\ longer \in Seq(Requests) /\ Len(longer) = Len(har) + 1
        /\ \A i \in 1 .. Len(har) : longer[i] = har[i]
        /\ longer[Len(har) + 1] = recorded[Len(har) + 1]
    BY <2>2, <2>3, <2>4, AppendProperties
  <2>6. \A i \in 1 .. Len(longer) : i \in 1 .. Len(har) \/ i = Len(har) + 1
    BY <2>2, <2>5
  <2> HIDE DEF longer
  <2>7. har' = longer \/ har' = har
    BY <2>1 DEF longer
  <2>8. TypeOK'
    BY <1>1, <2>1, <2>2, <2>5, <2>7 DEF Inv, TypeOK
  <2>9. FileHolds' /\ Sealed'
    BY <1>1, <2>1 DEF Inv, FileHolds, Sealed
  <2>10. Copied'
    <3>1. CASE har' = longer
      BY <1>1, <1>6, <2>1, <2>2, <2>3, <2>5, <2>6, <3>1 DEF Copied
    <3>2. CASE har' = har
      BY <1>1, <1>6, <2>1, <2>2, <2>3, <3>2 DEF Copied
    <3> QED
      BY <2>7, <3>1, <3>2
  <2> QED
    BY <1>3, <2>8, <2>9, <2>10 DEF Inv
<1>11. CASE CloseDocument
  <2>1. main' \in {"removing", "failed"} /\ UNCHANGED <<ensured, tmp, har, eof, awaited, report>>
    BY <1>11 DEF CloseDocument, writer
  <2>2. TypeOK' /\ FileHolds' /\ Copied' /\ Sealed'
    BY <1>1, <2>1 DEF Inv, TypeOK, FileHolds, Copied, Sealed
  <2> QED
    BY <1>3, <2>2 DEF Inv
<1>12. CASE Finish
  <2>1. /\ tmp' = None /\ main' = "finished"
        /\ report' = [ count |-> count, exchanges |-> Validated ]
        /\ UNCHANGED <<ensured, awaited, har, eof>>
    BY <1>12 DEF Finish
  <2>2. report' \in [ count : Nat, exchanges : SUBSET Requests ]
    BY <2>1 DEF Inv, TypeOK, Validated
  <2>3. TypeOK' /\ FileHolds' /\ Copied' /\ Sealed'
    BY <1>1, <2>1, <2>2 DEF Inv, TypeOK, FileHolds, Copied, Sealed
  <2> QED
    BY <1>3, <2>3 DEF Inv
<1> QED
  BY <1>7, <1>8, <1>9, <1>10, <1>11, <1>12 DEF Shutdown

LEMMA StepKeeps == Inv /\ [Next]_vars => Inv'
<1> SUFFICES ASSUME Inv, [Next]_vars PROVE Inv'
  OBVIOUS
<1>1. CASE \E r \in Requests : Arrive(r) \/ Disconnect(r) \/ Handle(r) \/ Task(r)
  BY <1>1, RequestsKeep, TaskKeeps
<1>2. CASE Signal \/ (\E r \in Requests : Rejected(r)) \/ Shutdown
  BY <1>2, ShutdownKeeps
<1>3. CASE UNCHANGED vars
  BY <1>3
     DEF vars, traffic, writer, command, Inv, TypeOK, WrittenOnce, FileHolds, Copied, Sealed, Recorded
<1> QED
  BY <1>1, <1>2, <1>3 DEF Next, Over

THEOREM InvHolds == Spec => []Inv
  BY InitHolds, StepKeeps, PTL DEF Spec

\* The state of the server, the queue and the writer keeps its types.
THEOREM TypeCorrect == Spec => []TypeOK
<1>1. Inv => TypeOK
  BY DEF Inv
<1> QED
  BY <1>1, InvHolds, PTL

------------------------------------------------------------------------------
(* The refinement *)

\* A complete document holds what was recorded when the reading ended.
LEMMA CompleteIsSealed ==
  ASSUME Inv, main = "assembling", eof # None, Len(har) = eof
  PROVE  /\ har = SubSeq(recorded, 1, eof)
         /\ eof = Len(recorded) => har = recorded
         /\ \A i \in 1 .. eof : har[i] = recorded[i]
<1>1. /\ har \in Seq(Requests) /\ recorded \in Seq(Requests)
      /\ eof \in Nat /\ eof <= Len(recorded) /\ Len(recorded) \in Nat
      /\ \A i \in 1 .. eof : har[i] = recorded[i]
  BY LenProperties DEF Inv, TypeOK, Copied, Sealed
<1> DEFINE part == SubSeq(recorded, 1, eof)
<1>2. part \in Seq(Requests) /\ Len(part) = eof /\ \A i \in 1 .. eof : part[i] = recorded[i]
  <2>1. eof + 1 - 1 = eof /\ \A i \in 1 .. eof : 1 + i - 1 = i /\ i \in 1 .. Len(recorded)
    BY <1>1
  <2>2. \A i \in 1 .. eof : recorded[i] \in Requests
    BY <1>1, <2>1, ElementOfSeq
  <2> QED
    BY <1>1, <2>1, <2>2, SubSeqProperties
<1>3. har = part
  BY <1>1, <1>2, SeqEqual
<1> QED
  BY <1>1, <1>3, SeqEqual

\* Every step of the command records an exchange that is not recorded yet, ends the
\* reading, completes the document, or does none of these.
LEMMA StepRefines == Inv /\ [Next]_vars => [Log!Next]_<<recorded, eof, Document>>
<1> SUFFICES ASSUME Inv, [Next]_vars
             PROVE  \/ \E r \in Requests : Log!Record(r)
                    \/ Log!Seal
                    \/ Log!Assemble
                    \/ UNCHANGED <<recorded, eof, Document>>
  BY DEF Log!Next
<1>1. CASE \E r \in Requests : Write(r)
  <2>1. PICK r \in Requests : Write(r)
    BY <1>1
  <2>2. stage[r] = "writing" /\ recorded' = Append(recorded, r) /\ UNCHANGED <<main, har, eof>>
    BY <2>1 DEF Write, IsHead, command
  <2>3. r \notin Recorded
    BY <2>2 DEF Inv, WrittenOnce
  <2>4. ~Log!Contains(recorded, r)
    BY <2>3 DEF Log!Contains, Recorded
  <2>5. UNCHANGED Document
    BY <2>2 DEF Document
  <2> QED
    BY <2>2, <2>4, <2>5 DEF Log!Record
<1>2. CASE OpenDocument
  <2>1. /\ main = "flushing" /\ main' \in {"assembling", "failed"} /\ UNCHANGED <<tmp, recorded>>
        /\ eof = None /\ (eof' = eof \/ (tmp = None /\ eof' = 0))
    BY <1>2 DEF OpenDocument, Inv, Sealed
  <2>2. UNCHANGED Document
    BY <2>1 DEF Document
  <2>3. tmp = None => recorded = <<>>
    BY <2>1, Clients DEF Inv, TypeOK, FileHolds
  <2>4. tmp = None => Len(recorded) = 0
    BY <2>3
  <2> QED
    BY <2>1, <2>2, <2>4 DEF Log!Seal
<1>3. CASE EndOfFile
  <2>1. /\ main = "assembling" /\ eof = None /\ eof' = Len(tmp)
        /\ UNCHANGED <<main, har, recorded>>
    BY <1>3 DEF EndOfFile, writer
  <2>2. tmp = recorded
    BY <2>1 DEF Inv, FileHolds, Sealed
  <2>3. UNCHANGED Document
    BY <2>1 DEF Document
  <2> QED
    BY <2>1, <2>2, <2>3 DEF Log!Seal
<1>4. CASE CloseDocument
  <2>1. /\ main = "assembling" /\ eof # None /\ Len(har) = eof /\ main' \in {"removing", "failed"}
        /\ UNCHANGED <<recorded, har, eof>>
    BY <1>4 DEF CloseDocument, writer
  <2>2. har = SubSeq(recorded, 1, eof)
    BY <2>1, CompleteIsSealed
  <2> QED
    BY <2>1, <2>2 DEF Log!Assemble, Document
<1>5. CASE \E r \in Requests : Arrive(r) \/ Disconnect(r) \/ Handle(r) \/ StartTask(r)
                                \/ EnsureDirectory(r) \/ WriteFails(r) \/ Count(r) \/ Validate(r)
  <2>1. UNCHANGED <<recorded, main, har, eof>>
    BY <1>5 DEF Arrive, Disconnect, Handle, Forward, Answer, NoAnswer, StartTask, EnsureDirectory,
                WriteFails, Count, Validate, writer, command
  <2> QED
    BY <2>1 DEF Document
<1>6. CASE Signal \/ (\E r \in Requests : Rejected(r)) \/ Closed \/ Drained \/ CopyLine \/ Finish
  <2>1. UNCHANGED <<recorded, eof>>
    BY <1>6 DEF Signal, Rejected, Closed, Drained, CopyLine, Finish, writer
  <2>2. \/ main \notin {"removing", "finished"} /\ main' \notin {"removing", "finished"}
        \/ main = "removing" /\ main' = "finished" /\ UNCHANGED har
    BY <1>6 DEF Signal, Rejected, Closed, Drained, CopyLine, Finish
  <2> QED
    BY <2>1, <2>2 DEF Document
<1>7. CASE UNCHANGED vars
  BY <1>7 DEF vars, writer, command, Document
<1> QED
  BY <1>1, <1>2, <1>3, <1>4, <1>5, <1>6, <1>7 DEF Next, Task, Shutdown, Over

\* The queue of onExchange, HarWriter and its finalize implement TrafficLog:
\* each exchange is recorded at most once, and the document is what was recorded
\* when the reading of the temporary file ended.
THEOREM Refines == Spec => RecordsTheTraffic
<1>1. Init => Log!Init
  BY DEF Init, Log!Init, Document
<1> QED
  BY <1>1, InvHolds, StepRefines, PTL DEF Spec, RecordsTheTraffic, Log!Spec
------------------------------------------------------------------------------
(* Nothing a waiting client saw is lost                                    *)
(*                                                                         *)
(* What is missing from Inv is where a pending exchange is: in the queue,  *)
(* behind the tasks that have ended, and, if its client waited for it,     *)
(* among those that the shutdown awaits.                                   *)

Pending == { "captured", "adding", "writing", "counting", "validating" }
Settled == { "idle", "failed", "skipped", "unrecorded", "validated" }

InQueue(r, last) == \E i \in done + 1 .. last : queue[i] = r

\* What is handed over waits in the queue; only the task at its head has begun.
Handed ==
  \A r \in Requests :
    /\ stage[r] \in Pending => InQueue(r, Len(queue))
    /\ stage[r] \in Pending \ {"captured"} => done < Len(queue) /\ queue[done + 1] = r

\* What a connected client can still be waiting for, at each point of the shutdown.
ShutsDown ==
  /\ main \notin {"serving", "closing", "crashed"} =>
       \A r \in Requests : client[r] => stage[r] \notin {"reading", "upstream"}
  /\ main = "draining" =>
       /\ awaited <= Len(queue)
       /\ \A r \in Requests : client[r] /\ stage[r] \in Pending => InQueue(r, awaited)
  /\ main \in {"flushing", "assembling", "removing", "finished", "failed"} =>
       \A r \in Requests : client[r] => stage[r] \in Settled

\* What went past the write is recorded, and counted but for the one being counted.
Counted ==
  /\ \A r \in Requests : stage[r] \in {"counting", "validating", "validated"} => r \in Recorded
  /\ IF \E r \in Requests : stage[r] = "counting" THEN Len(recorded) = count + 1
                                                  ELSE Len(recorded) = count

AllConnected == \A r \in Requests : client[r]

\* What a client that stayed waited for was recorded before the reading ended.
Read ==
  eof # None =>
    /\ \A r \in Requests :
         client[r] /\ stage[r] = "validated" => \E i \in 1 .. eof : recorded[i] = r
    /\ AllConnected => eof = Len(recorded)

\* What the document has when it is complete.
Assembled ==
  main \in {"removing", "finished"} =>
    /\ har \in Seq(Requests)
    /\ \A r \in Requests : client[r] /\ stage[r] = "validated" => r \in Documented
    /\ AllConnected => har = recorded

Reported ==
  main = "finished" /\ AllConnected =>
    tmp = None /\ report = [ count |-> Len(har), exchanges |-> Documented ]

ShutdownInv == Inv /\ Handed /\ ShutsDown /\ Counted /\ Read /\ Assembled /\ Reported

LEMMA StartsShutdownInv == Init => ShutdownInv
<1> SUFFICES ASSUME Init PROVE ShutdownInv
  OBVIOUS
<1>1. Inv
  BY InitHolds
<1>2. \A r \in Requests : stage[r] = "idle"
  BY DEF Init
<1>3. recorded = <<>> /\ Len(recorded) = 0 /\ count = 0 /\ main = "serving" /\ eof = None
  BY EmptySeq DEF Init
<1> QED
  BY <1>1, <1>2, <1>3
     DEF ShutdownInv, Handed, ShutsDown, Counted, Read, Assembled, Reported, Pending

\* What is in the queue stays there, and what is appended is behind it.
LEMMA QueueGrows ==
  ASSUME TypeOK, NEW r \in Requests, queue' = Append(queue, r), done' = done
  PROVE  /\ Len(queue') = Len(queue) + 1
         /\ InQueue(r, Len(queue))' 
         /\ \A q \in Requests, n \in 0 .. Len(queue) : InQueue(q, n) => InQueue(q, n)'
         /\ \A q \in Requests : InQueue(q, Len(queue)) => InQueue(q, Len(queue))'
         /\ done < Len(queue) => queue'[done + 1] = queue[done + 1]
<1>1. queue \in Seq(Requests) /\ Len(queue) \in Nat /\ done \in 0 .. Len(queue)
  BY LenProperties DEF TypeOK
<1>2. /\ Len(queue') = Len(queue) + 1
      /\ \A i \in 1 .. Len(queue) : queue'[i] = queue[i]
      /\ queue'[Len(queue) + 1] = r
  BY <1>1, AppendProperties
<1>3. InQueue(r, Len(queue))'
  BY <1>1, <1>2 DEF InQueue
<1>4. \A q \in Requests, n \in 0 .. Len(queue) : InQueue(q, n) => InQueue(q, n)'
  BY <1>1, <1>2 DEF InQueue
<1>5. \A q \in Requests : InQueue(q, Len(queue)) => InQueue(q, Len(queue))'
  BY <1>1, <1>2 DEF InQueue
<1>6. done < Len(queue) => queue'[done + 1] = queue[done + 1]
  BY <1>1, <1>2
<1> QED
  BY <1>2, <1>3, <1>4, <1>5, <1>6

\* handleRequest: after the server is closed only clients that left are still
\* answered, so nothing is handed over that a connected client waits for.
LEMMA RequestsKeepShutdown ==
  ASSUME ShutdownInv, NEW r \in Requests, Arrive(r) \/ Disconnect(r) \/ Handle(r)
  PROVE  ShutdownInv'
<1> DEFINE open == {"idle", "reading", "upstream", "failed", "skipped"}
<1>1. /\ stage[r] \in {"idle", "reading", "upstream"}
      /\ stage' = [ stage EXCEPT ![r] = stage'[r] ]
      /\ stage'[r] \in {"reading", "upstream", "failed", "skipped", "captured"}
      /\ \A q \in Requests : client'[q] => client[q]
      /\ main \in {"serving", "closing"} \/ ~client'[r]
      /\ main # "crashed" /\ done' = done
      /\ IF stage'[r] = "captured" THEN queue' = Append(queue, r) ELSE queue' = queue
      /\ UNCHANGED <<ensured, started, count, tmp, recorded, main, awaited, har, eof, report>>
  <2>1. stage \in [Requests -> Stages] /\ client \in [Requests -> BOOLEAN]
    BY DEF ShutdownInv, Inv, TypeOK
  <2>2. main \in {"serving", "closing", "crashed"} \/ (client[r] => stage[r] \notin {"reading", "upstream"})
    BY DEF ShutdownInv, ShutsDown
  <2>3. CASE Arrive(r)
    BY <2>1, <2>3 DEF Arrive, Go, writer, command
  <2>4. CASE Disconnect(r)
    BY <2>1, <2>4 DEF Disconnect, Up, Go, writer, command
  <2>5. CASE Handle(r)
    BY <2>1, <2>2, <2>5 DEF Handle, Forward, Answer, NoAnswer, Up, Go, writer, command
  <2> QED
    BY <2>3, <2>4, <2>5
<1>2. Inv /\ Inv'
  BY RequestsKeep DEF ShutdownInv
<1>3. stage \in [Requests -> Stages] /\ \A q \in Requests : q # r => stage'[q] = stage[q]
  BY <1>1, <1>2 DEF Inv, TypeOK
<1>4. Recorded' = Recorded
  BY <1>1 DEF Recorded
<1>5. \A q \in Requests : client'[q] /\ main \notin {"serving", "closing"} => q # r /\ client[q]
  BY <1>1
<1>6. Handed'
  <2>1. CASE stage'[r] = "captured"
    BY <1>1, <1>2, <1>3, <2>1, QueueGrows, LenProperties
       DEF ShutdownInv, Inv, TypeOK, Handed, Pending
  <2>2. CASE stage'[r] # "captured"
    BY <1>1, <1>3, <2>2 DEF ShutdownInv, Handed, Pending, InQueue
  <2> QED
    BY <2>1, <2>2
<1>7. ShutsDown'
  <2>1. main = "draining" =>
          /\ awaited <= Len(queue')
          /\ \A q \in Requests : client'[q] /\ stage'[q] \in Pending => InQueue(q, awaited)'
    <3>1. CASE stage'[r] = "captured"
      <4>1. Len(queue') = Len(queue) + 1 /\ Len(queue) \in Nat /\ awaited \in Nat
        BY <1>1, <1>2, <3>1, QueueGrows, LenProperties DEF Inv, TypeOK
      <4>2. \A q \in Requests, n \in 0 .. Len(queue) : InQueue(q, n) => InQueue(q, n)'
        BY <1>1, <1>2, <3>1, QueueGrows DEF Inv
      <4> QED
        BY <1>1, <1>3, <1>5, <4>1, <4>2 DEF ShutdownInv, ShutsDown, InQueue
    <3>2. CASE stage'[r] # "captured"
      BY <1>1, <1>3, <1>5, <3>2 DEF ShutdownInv, ShutsDown, InQueue
    <3> QED
      BY <3>1, <3>2
  <2> QED
    BY <1>1, <1>3, <1>5, <2>1 DEF ShutdownInv, ShutsDown, InQueue
<1>8. Counted'
  BY <1>1, <1>3, <1>4 DEF ShutdownInv, Counted
<1>9. Assembled'
  BY <1>1, <1>3, <1>5 DEF ShutdownInv, Assembled, AllConnected, Documented
<1>10. Reported'
  BY <1>1 DEF ShutdownInv, Reported, AllConnected, Documented
<1>11. Read'
  BY <1>1, <1>3 DEF ShutdownInv, Read, AllConnected
<1> QED
  BY <1>2, <1>6, <1>7, <1>8, <1>9, <1>10, <1>11 DEF ShutdownInv

\* The task at the head of the queue goes on or ends; the others wait.
LEMMA TaskKeepsShutdown == ASSUME ShutdownInv, NEW r \in Requests, Task(r) PROVE ShutdownInv'
<1>1. Inv /\ Inv'
  BY TaskKeeps DEF ShutdownInv
<1>2. /\ stage \in [Requests -> Stages] /\ done \in Nat /\ Len(queue) \in Nat
      /\ recorded \in Seq(Requests) /\ Len(recorded) \in Nat /\ count \in Nat
  BY <1>1, LenProperties DEF Inv, TypeOK
<1>3. /\ done < Len(queue) /\ queue[done + 1] = r /\ stage[r] \in Pending /\ main # "crashed"
      /\ UNCHANGED <<client, queue, main, awaited, har, eof, report>>
      /\ stage' = [ stage EXCEPT ![r] = stage'[r] ]
      /\ \/ done' = done /\ stage'[r] \in Pending \ {"captured"}
         \/ done' = done + 1 /\ stage'[r] \in {"unrecorded", "validated"}
  <2>1. CASE StartTask(r)
    BY <1>2, <2>1 DEF StartTask, IsHead, Up, Go, Pending, command
  <2>2. CASE EnsureDirectory(r)
    BY <1>2, <2>2 DEF EnsureDirectory, IsHead, Up, Go, EndTask, Pending, command
  <2>3. CASE Write(r)
    BY <1>2, <2>3 DEF Write, IsHead, Up, Go, Pending, command
  <2>4. CASE WriteFails(r)
    BY <1>2, <2>4 DEF WriteFails, IsHead, Up, Go, EndTask, Pending, command
  <2>5. CASE Count(r)
    BY <1>2, <2>5 DEF Count, IsHead, Up, Go, Pending, command
  <2>6. CASE Validate(r)
    BY <1>2, <2>6 DEF Validate, IsHead, Up, Go, EndTask, Pending, command
  <2> QED
    BY <2>1, <2>2, <2>3, <2>4, <2>5, <2>6 DEF Task
<1>4. \A q \in Requests : q # r => /\ stage'[q] = stage[q]
                                   /\ stage[q] \in Pending => stage[q] = "captured"
  BY <1>2, <1>3 DEF ShutdownInv, Handed
<1>5. \A q \in Requests, n \in Nat : q # r /\ InQueue(q, n) => InQueue(q, n)'
  BY <1>2, <1>3 DEF InQueue
<1>6. client[r] => main \in {"serving", "closing", "draining"}
  BY <1>1, <1>3 DEF ShutdownInv, ShutsDown, Inv, TypeOK, Pending, Settled
<1>7. Handed'
  <2>1. ASSUME NEW q \in Requests, stage'[q] \in Pending, q # r
        PROVE  InQueue(q, Len(queue))' /\ stage'[q] = "captured"
    BY <1>2, <1>3, <1>4, <1>5, <2>1 DEF ShutdownInv, Handed
  <2>2. ASSUME stage'[r] \in Pending
        PROVE  InQueue(r, Len(queue))' /\ done' < Len(queue') /\ queue'[done' + 1] = r
    BY <1>2, <1>3, <2>2 DEF InQueue, Pending
  <2> QED
    BY <2>1, <2>2 DEF Handed, Pending
<1>8. ShutsDown'
  <2>1. ASSUME main = "draining", NEW q \in Requests, client[q], stage'[q] \in Pending
        PROVE  InQueue(q, awaited)'
    <3>1. stage[q] \in Pending
      BY <1>3, <1>4, <2>1
    <3>2. InQueue(q, awaited) /\ awaited \in Nat
      BY <1>1, <2>1, <3>1 DEF ShutdownInv, ShutsDown, Inv, TypeOK
    <3>3. CASE q # r
      BY <1>3, <1>5, <3>2, <3>3 DEF InQueue
    <3>4. CASE q = r
      BY <1>2, <1>3, <2>1, <3>2, <3>4 DEF InQueue, Pending
    <3> QED
      BY <3>3, <3>4
  <2> QED
    BY <1>3, <1>4, <1>6, <2>1 DEF ShutdownInv, ShutsDown, Pending, Settled
<1>9. Counted'
  <2>1. CASE Write(r)
    <3>1. stage[r] = "writing" /\ stage'[r] = "counting" /\ count' = count
          /\ recorded' = Append(recorded, r)
      BY <1>2, <2>1 DEF Write, IsHead, Go
    <3>2. Len(recorded') = Len(recorded) + 1 /\ Recorded' = Recorded \cup {r}
      BY <1>1, <3>1, AppendRecorded DEF Inv
    <3>3. \A q \in Requests : stage[q] # "counting"
      BY <1>4, <3>1 DEF Pending
    <3> QED
      BY <1>2, <1>4, <3>1, <3>2, <3>3 DEF ShutdownInv, Counted
  <2>2. CASE Count(r)
    <3>1. /\ stage[r] = "counting" /\ stage'[r] = "validating"
          /\ count' = count + 1 /\ recorded' = recorded
      BY <1>2, <2>2 DEF Count, IsHead, Go
    <3>2. Recorded' = Recorded
      BY <3>1 DEF Recorded
    <3>3. \A q \in Requests : stage'[q] # "counting"
      BY <1>4, <3>1 DEF Pending
    <3> QED
      BY <1>2, <1>4, <3>1, <3>2, <3>3 DEF ShutdownInv, Counted
  <2>3. CASE StartTask(r) \/ EnsureDirectory(r) \/ WriteFails(r) \/ Validate(r)
    <3>1. /\ stage[r] # "counting" /\ stage'[r] # "counting" /\ UNCHANGED <<count, recorded>>
          /\ stage'[r] \in {"validating", "validated"} => stage[r] = "validating"
      BY <1>2, <2>3
         DEF StartTask, EnsureDirectory, WriteFails, Validate, IsHead, Go, EndTask, writer
    <3>2. Recorded' = Recorded
      BY <3>1 DEF Recorded
    <3> QED
      BY <1>2, <1>4, <3>1, <3>2 DEF ShutdownInv, Counted
  <2> QED
    BY <2>1, <2>2, <2>3 DEF Task
<1>10. Assembled' /\ Reported'
  <2>1. main \in {"removing", "finished"} => ~client[r]
    BY <1>6
  <2>2. main \in {"removing", "finished"} => ~AllConnected /\ ~AllConnected'
    BY <1>3, <2>1 DEF AllConnected
  <2>3. Documented' = Documented
    BY <1>3 DEF Documented
  <2> QED
    BY <1>3, <1>4, <2>1, <2>2, <2>3 DEF ShutdownInv, Assembled, Reported
<1>11. Read'
  <2> SUFFICES ASSUME eof # None
               PROVE  /\ \A q \in Requests :
                           client[q] /\ stage'[q] = "validated"
                             => \E i \in 1 .. eof : recorded'[i] = q
                      /\ ~AllConnected'
    BY <1>3 DEF Read
  <2>1. ~client[r]
    BY <1>1, <1>6 DEF Inv, Sealed
  <2>2. \A i \in 1 .. eof : recorded'[i] = recorded[i]
    <3>1. eof \in Nat /\ eof <= Len(recorded)
      BY <1>1 DEF Inv, TypeOK, Sealed
    <3>2. CASE Write(r)
      BY <1>1, <1>2, <3>1, <3>2, AppendRecorded DEF Write, Inv
    <3>3. CASE ~Write(r)
      BY <3>3 DEF Task, StartTask, EnsureDirectory, WriteFails, Count, Validate, writer
    <3> QED
      BY <3>2, <3>3
  <2>3. ~AllConnected'
    BY <1>3, <2>1 DEF AllConnected
  <2> QED
    BY <1>4, <2>1, <2>2, <2>3 DEF ShutdownInv, Read
<1> QED
  BY <1>1, <1>7, <1>8, <1>9, <1>10, <1>11 DEF ShutdownInv

\* Each stage of the shutdown begins when what it needs is settled.
LEMMA ShutdownKeepsShutdown ==
  ASSUME ShutdownInv, Signal \/ (\E r \in Requests : Rejected(r)) \/ Shutdown
  PROVE  ShutdownInv'
<1>1. Inv /\ Inv'
  BY ShutdownKeeps DEF ShutdownInv
<1>2. /\ UNCHANGED <<stage, client, queue, done, started, count, recorded>>
      /\ main # "finished"
  BY DEF Signal, Rejected, Shutdown, Closed, Drained, OpenDocument, EndOfFile, CopyLine,
         CloseDocument, Finish, traffic, writer
<1>3. Recorded' = Recorded /\ (AllConnected <=> AllConnected')
  BY <1>2 DEF Recorded, AllConnected
<1>4. Handed' /\ Counted'
  BY <1>2, <1>3 DEF ShutdownInv, Handed, Counted, InQueue
<1>5. done \in Nat /\ Len(queue) \in Nat /\ awaited \in Nat /\ stage \in [Requests -> Stages]
  BY <1>1, LenProperties DEF Inv, TypeOK
<1>6. /\ recorded \in Seq(Requests) /\ Len(recorded) \in Nat /\ None \notin Nat
      /\ \A r \in Requests : stage[r] = "validated" => \E i \in 1 .. Len(recorded) : recorded[i] = r
  <2>1. recorded \in Seq(Requests) /\ Len(recorded) \in Nat /\ None \notin Nat
    BY <1>1, Clients, LenProperties DEF Inv, TypeOK
  <2>2. \A r \in Requests : stage[r] = "validated" => r \in Recorded
    BY DEF ShutdownInv, Counted
  <2> QED
    BY <2>1, <2>2 DEF Recorded
<1>7. eof' = eof => Read'
  BY <1>2, <1>3 DEF ShutdownInv, Read
<1>8. CASE Signal \/ \E r \in Requests : Rejected(r)
  <2>1. main' \in {"closing", "crashed"} /\ eof' = eof
    BY <1>8 DEF Signal, Rejected
  <2> QED
    BY <1>1, <1>4, <1>7, <2>1 DEF ShutdownInv, ShutsDown, Assembled, Reported
<1>9. CASE Closed
  <2>1. main' = "draining" /\ awaited' = Len(queue) /\ Connected = {} /\ eof' = eof
    BY <1>9 DEF Closed
  <2>2. ShutsDown'
    BY <1>2, <1>4, <1>5, <2>1 DEF ShutsDown, Connected, Handed, InQueue
  <2> QED
    BY <1>1, <1>4, <1>7, <2>1, <2>2 DEF ShutdownInv, Assembled, Reported
<1>10. CASE Drained
  <2>1. main = "draining" /\ done >= awaited /\ main' = "flushing" /\ eof' = eof
    BY <1>10 DEF Drained
  <2>2. \A r \in Requests : ~InQueue(r, awaited)
    BY <1>5, <2>1 DEF InQueue
  <2>3. \A r \in Requests : client[r] => stage[r] \in Settled
    BY <1>5, <2>1, <2>2 DEF ShutdownInv, ShutsDown, Stages, Settled, Pending
  <2>4. ShutsDown'
    BY <1>2, <2>1, <2>3 DEF ShutsDown, Settled
  <2> QED
    BY <1>1, <1>4, <1>7, <2>1, <2>4 DEF ShutdownInv, Assembled, Reported
<1>11. CASE OpenDocument
  <2>1. /\ main = "flushing" /\ main' \in {"assembling", "failed"}
        /\ (eof' = eof \/ (tmp = None /\ eof' = 0))
    BY <1>11 DEF OpenDocument
  <2>2. ShutsDown'
    BY <1>2, <2>1 DEF ShutdownInv, ShutsDown
  <2>3. Read'
    <3>1. tmp = None => Len(recorded) = 0
      BY <1>1, <2>1, Clients DEF Inv, TypeOK, FileHolds
    <3> QED
      BY <1>2, <1>6, <1>7, <2>1, <3>1 DEF Read
  <2> QED
    BY <1>1, <1>4, <2>1, <2>2, <2>3 DEF ShutdownInv, Assembled, Reported
<1>12. CASE EndOfFile
  <2>1. main = "assembling" /\ main' = main /\ eof = None /\ eof' = Len(tmp) /\ har' = har
    BY <1>12 DEF EndOfFile
  <2>2. ShutsDown'
    BY <1>2, <2>1 DEF ShutdownInv, ShutsDown
  <2>3. tmp = recorded
    BY <1>1, <2>1 DEF Inv, FileHolds, Sealed
  <2>4. Read'
    BY <1>2, <1>6, <2>1, <2>3 DEF Read
  <2> QED
    BY <1>1, <1>4, <2>1, <2>2, <2>4 DEF ShutdownInv, Assembled, Reported
<1>13. CASE CopyLine
  <2>1. main = "assembling" /\ main' \in {"assembling", "failed"} /\ eof' = eof
    BY <1>13 DEF CopyLine
  <2>2. ShutsDown'
    BY <1>2, <2>1 DEF ShutdownInv, ShutsDown
  <2> QED
    BY <1>1, <1>4, <1>7, <2>1, <2>2 DEF ShutdownInv, Assembled, Reported
<1>14. CASE CloseDocument
  <2>1. /\ main = "assembling" /\ main' \in {"removing", "failed"} /\ har' = har /\ eof' = eof
        /\ eof # None /\ Len(har) = eof
    BY <1>14 DEF CloseDocument
  <2>2. ShutsDown'
    BY <1>2, <2>1 DEF ShutdownInv, ShutsDown
  <2>3. /\ har \in Seq(Requests)
        /\ eof = Len(recorded) => har = recorded
        /\ \A i \in 1 .. eof : har[i] = recorded[i]
    BY <1>1, <2>1, CompleteIsSealed DEF Inv, Copied
  <2>4. \A i \in 1 .. eof : har[i] \in Documented
    BY <2>1, <2>3 DEF Documented
  <2>5. \A r \in Requests : client[r] /\ stage[r] = "validated" => r \in Documented
    BY <2>1, <2>3, <2>4 DEF ShutdownInv, Read
  <2>6. Documented' = Documented
    BY <2>1 DEF Documented
  <2>7. AllConnected => har = recorded
    BY <2>1, <2>3 DEF ShutdownInv, Read
  <2>8. Assembled'
    BY <1>2, <1>3, <2>1, <2>3, <2>5, <2>6, <2>7 DEF Assembled
  <2> QED
    BY <1>1, <1>4, <1>7, <2>1, <2>2, <2>8 DEF ShutdownInv, Reported
<1>15. CASE Finish
  <2>1. /\ main = "removing" /\ main' = "finished" /\ tmp' = None /\ har' = har /\ eof' = eof
        /\ report' = [ count |-> count, exchanges |-> Validated ]
    BY <1>15 DEF Finish
  <2>2. Documented' = Documented
    BY <2>1 DEF Documented
  <2>3. Assembled'
    BY <1>2, <1>3, <2>1, <2>2 DEF ShutdownInv, Assembled
  <2>4. ShutsDown'
    BY <1>2, <2>1 DEF ShutdownInv, ShutsDown
  <2>5. ASSUME AllConnected PROVE count = Len(har) /\ Validated = Documented
    <3>1. har = recorded /\ Documented = Recorded
      BY <2>1, <2>5 DEF ShutdownInv, Assembled, Documented, Recorded
    <3>2. \A r \in Requests : stage[r] \in Settled
      BY <2>1, <2>5 DEF ShutdownInv, ShutsDown, AllConnected
    <3>3. count = Len(recorded)
      BY <3>2 DEF ShutdownInv, Counted, Settled
    <3>4. \A r \in Requests : stage[r] = "validated" <=> r \in Recorded
      BY <3>2 DEF ShutdownInv, Inv, WrittenOnce, Counted, Settled
    <3> QED
      BY <1>1, <3>1, <3>3, <3>4, RecordedType DEF Validated, Inv
  <2>6. Reported'
    BY <1>3, <2>1, <2>2, <2>5 DEF Reported
  <2> QED
    BY <1>1, <1>4, <1>7, <2>1, <2>3, <2>4, <2>6 DEF ShutdownInv
<1> QED
  BY <1>8, <1>9, <1>10, <1>11, <1>12, <1>13, <1>14, <1>15 DEF Shutdown

LEMMA StepKeepsShutdown == ShutdownInv /\ [Next]_vars => ShutdownInv'
<1> SUFFICES ASSUME ShutdownInv, [Next]_vars PROVE ShutdownInv'
  OBVIOUS
<1>1. CASE \E r \in Requests : Arrive(r) \/ Disconnect(r) \/ Handle(r) \/ Task(r)
  BY <1>1, RequestsKeepShutdown, TaskKeepsShutdown
<1>2. CASE Signal \/ (\E r \in Requests : Rejected(r)) \/ Shutdown
  BY <1>2, ShutdownKeepsShutdown
<1>3. CASE UNCHANGED vars
  <2>1. Inv'
    BY <1>3, StepKeeps DEF ShutdownInv
  <2>2. (AllConnected <=> AllConnected') /\ Documented' = Documented /\ Recorded' = Recorded
    BY <1>3 DEF vars, traffic, writer, command, AllConnected, Documented, Recorded
  <2> QED
    BY <1>3, <2>1, <2>2
       DEF vars, traffic, writer, command, ShutdownInv, Handed, ShutsDown, Counted, Read,
           Assembled, Reported, InQueue
<1> QED
  BY <1>1, <1>2, <1>3 DEF Next, Over

\* Of the clients that waited none is missing in the document, and when no client
\* left the count, the report and the document agree, however the requests, the
\* tasks of exchangeQueue and the shutdown of handleProxy interleave.
THEOREM CaptureComplete == Spec => []CaptureIsComplete
<1>1. ShutdownInv => CaptureIsComplete
  <2> SUFFICES ASSUME ShutdownInv PROVE CaptureIsComplete
    OBVIOUS
  <2>1. TypeOK
    BY DEF ShutdownInv, Inv
  <2>2. WaitingClientsAreRecorded
    BY DEF ShutdownInv, ShutsDown, Assembled, WaitingClientsAreRecorded, Ended, Settled
  <2>3. CleanShutdown
    BY DEF ShutdownInv, Reported, CleanShutdown, Ended, AllConnected
  <2> QED
    BY <2>1, <2>2, <2>3 DEF CaptureIsComplete
<1> QED
  BY <1>1, StartsShutdownInv, StepKeepsShutdown, PTL DEF Spec
==============================================================================
