----------------------------- MODULE ProxyCapture -----------------------------
(***************************************************************************)
(* The proxy command: server.ts forwards requests concurrently and hands   *)
(* each answered one to onExchange (index.ts), which chains its recording  *)
(* and validation to exchangeQueue; HarWriter (har-writer.ts) appends one  *)
(* line per exchange to a temporary file.  On a signal the server is       *)
(* closed, the queue awaited and the lines assembled into the HAR file.    *)
(*                                                                         *)
(* Payloads are left out: a line is the request it records.  A call of the *)
(* file system does what it says, or fails and does nothing; removing a    *)
(* file does not fail; a line is written and read whole.  The upstream     *)
(* answers, fails, or does neither.                                        *)
(***************************************************************************)
EXTENDS Naturals, Sequences, FiniteSets

CONSTANTS
  Requests,  (* the requests that clients make                              *)
  Leaving,   (* the clients that may disconnect before they are answered    *)
  None       (* no document                                                 *)

ASSUME Clients ==
  Leaving \subseteq Requests /\ None \notin Seq(Requests) \cup Nat /\ IsFiniteSet(Requests)

VARIABLES
  stage,    (* of each request: see Stages                                  *)
  client,   (* whether the client is connected                              *)
  queue,    (* the exchanges handed to onExchange, in order                 *)
  done,     (* how many tasks of exchangeQueue have ended                   *)
  ensured,  (* directoryEnsured                                             *)
  started,  (* whether the first line was written                           *)
  count,    (* the entries HarWriter counted                                *)
  tmp,      (* the lines of the temporary file, None if there is none       *)
  recorded, (* the exchanges whose lines were written, in order             *)
  main,     (* what handleProxy is doing                                    *)
  awaited,  (* how many tasks it waits for                                  *)
  har,      (* the lines in the HAR file so far, None if there is none      *)
  eof,      (* the lines read when the reading came to the end of the       *)
            (* temporary file, None before                                  *)
  report    (* the count and the exchanges in the final report              *)

traffic == <<stage, client, queue, done>>
writer  == <<ensured, started, count, tmp, recorded>>
command == <<main, awaited, har, eof, report>>
vars == <<traffic, writer, command>>

Stages ==
  { "idle", "reading", "upstream", "failed", "skipped",  \* handleRequest
    "captured", "adding", "writing", "counting",         \* HarWriter.add
    "validating", "unrecorded", "validated" }            \* session.process
NoReport == [ count |-> 0, exchanges |-> {} ]

Init ==
  /\ stage = [ r \in Requests |-> "idle" ]
  /\ client = [ r \in Requests |-> TRUE ]
  /\ queue = <<>> /\ done = 0
  /\ ensured = FALSE /\ started = FALSE /\ count = 0
  /\ tmp = None /\ recorded = <<>>
  /\ main = "serving" /\ awaited = 0 /\ har = None /\ eof = None /\ report = NoReport

Up == main # "crashed"
Go(r, to) == stage' = [ stage EXCEPT ![r] = to ]

------------------------------------------------------------------------------
(* handleRequest *)

\* The listening socket is closed with the server.
Arrive(r) ==
  /\ stage[r] = "idle" /\ main = "serving"
  /\ \/ Go(r, "reading")
     \/ Go(r, "failed")  \* the method is not supported
  /\ UNCHANGED <<client, queue, done, writer, command>>

\* The target of the request cannot be resolved: buildForwardUrl throws outside
\* the try block, nobody handles the rejection, and the process ends.
Rejected(r) ==
  /\ stage[r] = "idle" /\ main = "serving"
  /\ main' = "crashed"
  /\ UNCHANGED <<traffic, writer, awaited, har, eof, report>>

\* A client that disconnects while its body is read makes the request fail; the
\* request to the upstream is not given up for it.
Disconnect(r) ==
  /\ r \in Leaving /\ client[r] /\ stage[r] \in {"reading", "upstream"} /\ Up
  /\ client' = [ client EXCEPT ![r] = FALSE ]
  /\ Go(r, IF stage[r] = "reading" THEN "failed" ELSE "upstream")
  /\ UNCHANGED <<queue, done, writer, command>>

\* The body is read, or server.requestTimeout ends the connection.
Forward(r) ==
  /\ stage[r] = "reading" /\ Up
  /\ Go(r, "upstream") \/ Go(r, "failed")
  /\ UNCHANGED <<client, queue, done, writer, command>>

\* The client is answered and, in the same tick, the exchange handed over.
Answer(r) ==
  /\ stage[r] = "upstream" /\ Up
  /\ Go(r, "captured")
  /\ queue' = Append(queue, r)
  /\ UNCHANGED <<client, done, writer, command>>

\* Faulty: a request without an exchange counts as a task that has ended.
NoAnswerEndsTask(r) ==
  /\ stage[r] = "upstream" /\ Up
  /\ Go(r, "failed") \/ Go(r, "skipped")
  /\ done' = done + 1
  /\ UNCHANGED <<client, queue, writer, command>>

\* There is no answer, or no exchange can be built from it.
NoAnswer(r) ==
  /\ stage[r] = "upstream" /\ Up
  /\ Go(r, "failed") \/ Go(r, "skipped")
  /\ UNCHANGED <<client, queue, done, writer, command>>

------------------------------------------------------------------------------
(* The task of an exchange: HarWriter.add, then session.process. *)

IsHead(r, at) == Up /\ done < Len(queue) /\ queue[done + 1] = r /\ stage[r] = at

StartTask(r) ==
  /\ IsHead(r, "captured")
  /\ Go(r, "adding")
  /\ UNCHANGED <<client, queue, done, writer, command>>

\* Faulty: a task that could not write its line begins again.
EndTaskAgain(r, how) ==
  IF how = "unrecorded" THEN Go(r, "captured") /\ UNCHANGED done ELSE Go(r, how) /\ done' = done + 1

\* The task ends, and with it the wait of the next one.
EndTask(r, how) == Go(r, how) /\ done' = done + 1

EnsureDirectory(r) ==
  /\ IsHead(r, "adding")
  /\ \/ Go(r, "writing") /\ ensured' = TRUE /\ UNCHANGED done
     \/ ~ensured /\ EndTask(r, "unrecorded") /\ UNCHANGED ensured
  /\ UNCHANGED <<client, queue, started, count, tmp, recorded, command>>

\* writeFile truncates, appendFile goes on after what is there.
Before == IF started /\ tmp # None THEN tmp ELSE <<>>

\* Faulty: every line is written with writeFile.
WriteOver(r) ==
  /\ IsHead(r, "writing")
  /\ tmp' = <<r>>
  /\ recorded' = Append(recorded, r)
  /\ started' = TRUE
  /\ Go(r, "counting")
  /\ UNCHANGED <<client, queue, done, ensured, count, command>>

Write(r) ==
  /\ IsHead(r, "writing")
  /\ tmp' = Append(Before, r)
  /\ recorded' = Append(recorded, r)
  /\ started' = TRUE
  /\ Go(r, "counting")
  /\ UNCHANGED <<client, queue, done, ensured, count, command>>

WriteFails(r) ==
  /\ IsHead(r, "writing")
  /\ EndTask(r, "unrecorded")
  /\ UNCHANGED <<client, queue, ensured, started, count, tmp, recorded, command>>

Count(r) ==
  /\ IsHead(r, "counting")
  /\ count' = count + 1
  /\ Go(r, "validating")
  /\ UNCHANGED <<client, queue, done, ensured, started, tmp, recorded, command>>

Validate(r) ==
  /\ IsHead(r, "validating")
  /\ EndTask(r, "validated")
  /\ UNCHANGED <<client, queue, writer, command>>

------------------------------------------------------------------------------
(* handleProxy after the signal, and HarWriter.finalize. *)

Signal ==
  /\ main = "serving"
  /\ main' = "closing"
  /\ UNCHANGED <<traffic, writer, awaited, har, eof, report>>

\* server.close calls back when the last connection has ended; then the tasks
\* queued so far are awaited.
Connected == { r \in Requests : client[r] /\ stage[r] \in {"reading", "upstream"} }

\* Faulty: exchangeQueue is awaited as it was when the signal came.
ClosedEarly ==
  /\ main = "closing"
  /\ main' = "draining" /\ awaited' = Len(queue)
  /\ UNCHANGED <<traffic, writer, har, eof, report>>

Closed ==
  /\ main = "closing" /\ Connected = {}
  /\ main' = "draining" /\ awaited' = Len(queue)
  /\ UNCHANGED <<traffic, writer, har, eof, report>>

\* finalize first awaits the write in progress, if any.
Writing == { r \in Requests : stage[r] \in {"adding", "writing", "counting"} }

Drained ==
  /\ main = "draining" /\ done >= awaited
  /\ main' = "flushing" /\ awaited' = done + Cardinality(Writing)
  /\ UNCHANGED <<traffic, writer, har, eof, report>>

Written == done + Cardinality({ r \in Requests : stage[r] = "validating" })

\* The file is opened and its head written; only then it is asked, once, whether
\* there is a temporary file to be read.
OpenDocument ==
  /\ main = "flushing" /\ Written >= awaited
  /\ \/ /\ main' = "assembling" /\ har' = <<>> /\ ensured' = TRUE
        /\ eof' = IF tmp = None THEN 0 ELSE eof
     \/ main' = "failed" /\ ensured' \in {ensured, TRUE} /\ UNCHANGED <<har, eof>>
  /\ UNCHANGED <<traffic, started, count, tmp, recorded, awaited, report>>

\* Faulty: the reading stops at the last exchange that was counted.
EndOfFileCounted ==
  /\ main = "assembling" /\ eof = None
  /\ eof' = count
  /\ UNCHANGED <<traffic, writer, main, awaited, har, report>>

\* The reading, which runs ahead of the copying, finds nothing more to read.  A
\* line that is appended from now on is not in the document.
EndOfFile ==
  /\ main = "assembling" /\ eof = None
  /\ eof' = Len(tmp)
  /\ UNCHANGED <<traffic, writer, main, awaited, har, report>>

CopyLine ==
  /\ main = "assembling" /\ Len(har) < (IF eof = None THEN Len(tmp) ELSE eof)
  /\ \/ har' = Append(har, tmp[Len(har) + 1]) /\ UNCHANGED main
     \/ main' = "failed" /\ UNCHANGED har
  /\ UNCHANGED <<traffic, writer, awaited, eof, report>>

\* The foot is written and the stream ended.
CloseDocument ==
  /\ main = "assembling" /\ eof # None /\ Len(har) = eof
  /\ main' \in {"removing", "failed"}
  /\ UNCHANGED <<traffic, writer, awaited, har, eof, report>>

Validated == { r \in Requests : stage[r] = "validated" }

\* Faulty: the temporary file is left.
FinishLeaving ==
  /\ main = "removing"
  /\ report' = [ count |-> count, exchanges |-> Validated ]
  /\ main' = "finished"
  /\ UNCHANGED <<traffic, writer, awaited, har, eof>>

\* The temporary file is removed, then the count and the report are printed.
Finish ==
  /\ main = "removing"
  /\ tmp' = None
  /\ report' = [ count |-> count, exchanges |-> Validated ]
  /\ main' = "finished"
  /\ UNCHANGED <<traffic, ensured, started, count, recorded, awaited, har, eof>>

Handle(r) == Forward(r) \/ Answer(r) \/ NoAnswer(r)
Task(r) ==
  \/ StartTask(r) \/ EnsureDirectory(r) \/ Write(r) \/ WriteFails(r) \/ Count(r) \/ Validate(r)
Shutdown ==
  Closed \/ Drained \/ OpenDocument \/ EndOfFile \/ CopyLine \/ CloseDocument \/ Finish

\* The process has crashed, or the command has ended; then what is still under way
\* keeps the process running.
Over ==
  /\ \/ ~Up
     \/ /\ main \in {"finished", "failed"}
        /\ \A r \in Requests :
             stage[r] \in {"idle", "failed", "skipped", "unrecorded", "validated"}
  /\ UNCHANGED vars

Next ==
  \/ \E r \in Requests : Arrive(r) \/ Rejected(r) \/ Disconnect(r) \/ Handle(r) \/ Task(r)
  \/ Signal \/ Shutdown \/ Over

Spec == Init /\ [][Next]_vars

\* A request is read or times out (server.requestTimeout); the tasks and handleProxy
\* are driven by the event loop.  Nothing bounds how long an upstream goes on with
\* its answer, so there is no fairness for Answer and NoAnswer.
Fairness ==
  /\ \A r \in Requests : WF_vars(Forward(r)) /\ WF_vars(Task(r))
  /\ WF_vars(Shutdown)
FairSpec == Spec /\ Fairness

------------------------------------------------------------------------------
(* Properties *)

TypeOK ==
  /\ stage \in [Requests -> Stages]
  /\ client \in [Requests -> BOOLEAN]
  /\ queue \in Seq(Requests) /\ done \in 0 .. Len(queue)
  /\ ensured \in BOOLEAN /\ started \in BOOLEAN /\ count \in Nat
  /\ tmp \in Seq(Requests) \cup {None}
  /\ recorded \in Seq(Requests)
  /\ main \in { "serving", "closing", "draining", "flushing", "assembling", "removing",
                "finished", "failed", "crashed" }
  /\ awaited \in Nat
  /\ har \in Seq(Requests) \cup {None} /\ eof \in Nat \cup {None}
  /\ report \in [ count : Nat, exchanges : SUBSET Requests ]

Ended == main = "finished"
Documented == { har[i] : i \in DOMAIN har }

\* Of the clients that waited for their answer, none is missing in the HAR file:
\* only an exchange that could not be written is, and it was reported.
WaitingClientsAreRecorded ==
  Ended => \A r \in Requests :
             (client[r] /\ stage[r] \notin {"idle", "failed", "skipped", "unrecorded"}) => r \in Documented

\* Unless a client left while its request was under way, what the command says
\* in the end agrees with the file it wrote, in the number of entries and in the
\* exchanges that the report covers, and no temporary file is left.
CleanShutdown ==
  Ended /\ (\A r \in Requests : client[r]) =>
    tmp = None /\ report = [ count |-> Len(har), exchanges |-> Documented ]

\* The state keeps its types, and when the command has ended the file has what the
\* clients saw and the command said.
CaptureIsComplete == TypeOK /\ WaitingClientsAreRecorded /\ CleanShutdown

\* Once finalize has removed the temporary file there is none.
TemporaryFileIsRemoved == Ended => tmp = None

\* The document as the abstract log has it, once it is complete.
Document == IF main \in {"removing", "finished"} THEN har ELSE None
Log == INSTANCE TrafficLog WITH sealed <- eof, document <- Document

\* The command records each exchange once and assembles what was recorded when the
\* reading came to the end of the file, in that order, however answers, writes,
\* failures and the shutdown interleave.
RecordsTheTraffic == Log!Spec

\* After the signal the command always ends, unless a client waits for ever for an
\* upstream that never ends its answer; a client that left does not count.
Finishes ==
  (\A r \in Requests : []<>~(client[r] /\ stage[r] = "upstream"))
    => (main = "closing" ~> main \in {"finished", "failed"})
==============================================================================
