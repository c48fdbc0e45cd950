-------------------------- MODULE CompressedStream --------------------------
(***************************************************************************)
(* A compressed stream (Core/Stream/CompressedStreamBase.h and the bzip2,  *)
(* LZMA and gzip streams on top of it): the thread that owns the stream    *)
(* ("main") and a worker that runs the codec are connected by a pipe.      *)
(* When the stream was opened for reading the worker uncompresses the file *)
(* into the pipe and main reads; otherwise main writes and the worker      *)
(* compresses what it reads from the pipe into the file.                   *)
(***************************************************************************)
EXTENDS Pipe

CONSTANTS
  ChunkSize,  \* what the compressing worker asks the pipe for (IN_BUFFER_SIZE)
  Kind        \* kinds of compressed files: "good", "corrupt", "truncated"

ASSUME StreamAssumption ==
  ChunkSize \in 1..MaxCount /\ Kind \subseteq {"good", "corrupt", "truncated"}

VARIABLES
  reading,  \* opened for reading?
  kind,     \* the file to be read; for writing, "corrupt" is a full disk
  main,     \* "open", in the destructor, or "gone"
  worker,   \* where the worker is
  asked,    \* the worker has asked for a chunk that it has not looked at
  before,   \* bytes received when it asked
  state     \* "busy", "failed" (Ready), "successful" (Ready | Successful)

streamVars == <<reading, kind, main, worker, asked, before, state>>
vars == <<pipeVars, streamVars>>

MainSide   == IF reading THEN "reader" ELSE "writer"
WorkerSide == IF reading THEN "writer" ELSE "reader"

Returned(t) == pc[t] \in {"out", "broken"}

Init ==
  /\ PipeInit
  /\ reading \in BOOLEAN /\ kind \in Kind /\ (kind = "truncated" => reading)
  /\ main = "open" /\ worker = "running" /\ state = "busy"
  /\ asked = FALSE /\ before = 0
-----------------------------------------------------------------------------
(* Main.                                                                   *)

\* Stream::Read and Stream::Write throw if the worker has failed; otherwise
\* they call the pipe.
MainCall(n) ==
  /\ main = "open" /\ n > 0 /\ state # "failed"
  /\ ~ reading => sent + n <= MaxBytes
  /\ Call(MainSide, n)
  /\ UNCHANGED streamVars

\* StopThread: pipe.Close() ...
Destroy ==
  /\ main = "open" /\ Returned(MainSide)
  /\ SetDone(MainSide)
  /\ main' = "notify"
  /\ UNCHANGED <<reading, kind, worker, asked, before, state>>

DestroyNotify ==
  /\ main = "notify" /\ NotifyClosed(MainSide)
  /\ main' = "join"
  /\ UNCHANGED <<reading, kind, worker, asked, before, state>>

\* ... and worker.join()
Join ==
  /\ main = "join" /\ worker = "exited"
  /\ main' = "gone"
  /\ UNCHANGED <<pipeVars, reading, kind, worker, asked, before, state>>
-----------------------------------------------------------------------------
(* The worker.                                                             *)

\* Worker is in DoUncompress or DoCompress, outside of the pipe.
Working == worker = "running" /\ pc[WorkerSide] = "out"

\* DoUncompress hands over what the codec has produced; at the end of the
\* stream that may be nothing.
WorkerWrite(n) ==
  /\ reading /\ Working
  /\ sent + n <= MaxBytes /\ (kind # "good" => sent + n < MaxBytes)
  /\ n = 0 => sent = MaxBytes
  /\ Call("writer", n)
  /\ UNCHANGED streamVars

\* DoCompress asks for a chunk.
WorkerRead ==
  /\ ~ reading /\ Working /\ ~ asked
  /\ Call("reader", ChunkSize)
  /\ asked' = TRUE /\ before' = Len(received)
  /\ UNCHANGED <<reading, kind, main, worker, state>>

\* It has got a chunk that is not empty.
WorkerGotChunk ==
  /\ ~ reading /\ Working /\ asked /\ Len(received) > before
  /\ asked' = FALSE
  /\ UNCHANGED <<pipeVars, reading, kind, main, worker, before, state>>

\* Mutant: the compressing worker ends when the pipe is closed, whatever is
\* still in it.
WorkerEndsWhenClosed ==
  /\ Working /\ kind = "good"
  /\ IF reading THEN sent = MaxBytes ELSE done
  /\ SetDone(WorkerSide)
  /\ worker' = "notify"
  /\ UNCHANGED <<reading, kind, main, asked, before, state>>

\* DoUncompress has seen the end of the compressed stream, DoCompress has got
\* an empty chunk: Worker calls pipe.Close().
WorkerEnds ==
  /\ Working /\ kind = "good"
  /\ IF reading THEN sent = MaxBytes ELSE asked /\ Len(received) = before
  /\ SetDone(WorkerSide)
  /\ worker' = "notify"
  /\ UNCHANGED <<reading, kind, main, asked, before, state>>

WorkerNotify ==
  /\ worker = "notify" /\ NotifyClosed(WorkerSide)
  /\ worker' = "finish"
  /\ UNCHANGED <<reading, kind, main, asked, before, state>>

\* Finish(true)
WorkerFinish ==
  /\ worker = "finish"
  /\ state' = "successful" /\ worker' = "exited"
  /\ UNCHANGED <<pipeVars, reading, kind, main, asked, before>>

\* The codec or the file system raises an error, or the pipe is broken:
\* Finish(false), and the pipe is not closed.
WorkerFails ==
  /\ worker = "running"
  /\ \/ pc[WorkerSide] = "out" /\ kind = "corrupt"
     \/ pc[WorkerSide] = "broken"
  /\ state' = "failed" /\ worker' = "exited"
  /\ UNCHANGED <<pipeVars, reading, kind, main, asked, before>>

\* The bzip2 decoder is out of input before the end of the stream: it reports
\* BZ_OK and is called again for ever.
WorkerSpins ==
  /\ reading /\ Working /\ kind = "truncated"
  /\ worker' = "spinning"
  /\ UNCHANGED <<pipeVars, reading, kind, main, asked, before, state>>
-----------------------------------------------------------------------------
\* Either thread inside of a call of the pipe.
InPipe(t) == Inside(t) /\ UNCHANGED streamVars

WorkerStep ==
  \/ InPipe(WorkerSide)
  \/ \E n \in 0..MaxCount : WorkerWrite(n)
  \/ WorkerRead \/ WorkerGotChunk
  \/ WorkerEnds \/ WorkerNotify \/ WorkerFinish \/ WorkerFails \/ WorkerSpins

Next ==
  \/ \E n \in 1..MaxCount : MainCall(n)
  \/ InPipe(MainSide)
  \/ Destroy \/ DestroyNotify \/ Join
  \/ WorkerStep
  \/ \E t \in Side : WakeSpuriously(t) /\ UNCHANGED streamVars

Spec == Init /\ [][Next]_vars

\* Threads are scheduled, and the mutex is not withheld for ever from a thread
\* that finds it free again and again.  The codec makes progress: an empty
\* Write is followed by something else.  Main need not call anything.
Fairness ==
  /\ \A t \in Side : WF_vars(InPipe(t)) /\ SF_vars(Lock(t) /\ UNCHANGED streamVars)
  /\ WF_vars(DestroyNotify) /\ WF_vars(Join)
  /\ WF_vars(WorkerRead) /\ WF_vars(WorkerGotChunk)
  /\ WF_vars(WorkerNotify) /\ WF_vars(WorkerFinish)
  /\ SF_vars(WorkerEnds) /\ SF_vars(WorkerFails) /\ SF_vars(WorkerSpins)
  /\ SF_vars(\E n \in 1..MaxCount : WorkerWrite(n))

FairSpec == Spec /\ Fairness
-----------------------------------------------------------------------------
\* Every variable stays in its range.
TypeOK ==
  /\ PipeTypeOK
  /\ reading \in BOOLEAN /\ kind \in Kind
  /\ main \in {"open", "notify", "join", "gone"}
  /\ worker \in {"running", "notify", "finish", "exited", "spinning"}
  /\ asked \in BOOLEAN /\ before \in Nat
  /\ state \in {"busy", "failed", "successful"}

\* Nothing is cut off unnoticed.  Main takes a short read for the end of the
\* file: by then it has got every byte of a good file, and it never sees the
\* end of a bad one.  And when a stream for writing is gone and the worker has
\* finished without an error, the file has every byte that was written.
NothingTruncated ==
  /\ reading /\ main = "open" /\ pc["reader"] = "out" /\ short =>
       kind = "good" /\ Len(received) = MaxBytes
  /\ ~ reading /\ main = "gone" /\ state = "successful" => Len(received) = sent

\* A call of Read or Write comes back, unless the worker fails or spins, or
\* a notification was lost.
CallReturns ==
  ~ Returned(MainSide) ~> Returned(MainSide) \/ state = "failed" \/ worker = "spinning" \/ lost

\* So does the destructor; the failure of the worker does not keep it.
DestructorReturnsUnlessLost ==
  main \in {"notify", "join"} ~> main = "gone" \/ worker = "spinning" \/ lost

\* "lzmaStream = nullptr": a stream that reads a good file can be destroyed at
\* any time.
DestructorReturns == reading /\ main = "notify" ~> main = "gone"
=============================================================================
