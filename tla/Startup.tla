------------------------------ MODULE Startup ------------------------------
(***************************************************************************)
(* How the process comes up, feeds its projection and goes down:           *)
(* cmd/fleetradar main, the bounded ingest queue (fleet.Ingest) and the    *)
(* simulator's two ways of publishing into it (Replay and Run).            *)
(*                                                                         *)
(* Goroutines: main, the projecting goroutine (Ingest.Run), the source     *)
(* (Simulator.Run) and the one that shuts the server down.  What a record  *)
(* says is FleetStore's business; here a record is a registration or a     *)
(* report of one vehicle.                                                  *)
(***************************************************************************)
EXTENDS Integers, Sequences, SequencesExt

CONSTANTS RosterSize,   \* vehicles the simulator registers (FleetSize)
          QueueDepth,   \* capacity of the ingest queue (queueDepth)
          MaxReports    \* bound on the reports the source publishes

ASSUME StartupAssumption ==
  /\ RosterSize \in Nat
  /\ QueueDepth \in Nat \ {0}
  /\ MaxReports \in Nat

VARIABLES main,        \* where the main goroutine is
          replayed,    \* registrations Replay has published
          queue,       \* Ingest.queue
          barrier,     \* whether the channel Barrier returned is closed
          ingest,      \* the projecting goroutine: "running" or "stopped"
          lifecycle,   \* Publisher.lifecycle
          source,      \* the source goroutine
          closer,      \* the goroutine that calls server.Shutdown
          cancelled,   \* the signal context is done
          sent,        \* history: every record accepted by Consume, in order
          projected    \* history: every record handed to the projector, in order

vars == <<main, replayed, queue, barrier, ingest, lifecycle, source, closer,
          cancelled, sent, projected>>

Fleet == 1..RosterSize

Registration(v) == [kind |-> "registration", vehicle |-> v]
Report(v)       == [kind |-> "report", vehicle |-> v]
Barrier         == [kind |-> "barrier", vehicle |-> 0]

IsRecord(item) == item.kind # "barrier"

Registered == {v \in Fleet : Contains(projected, Registration(v))}

Reports == Len(SelectSeq(sent, LAMBDA r : r.kind = "report"))

Init == /\ main = "replaying"
        /\ replayed = 0
        /\ queue = <<>>
        /\ barrier = "open"
        /\ ingest = "running"
        /\ lifecycle = "STARTING"
        /\ source = "unstarted"
        /\ closer = "unstarted"
        /\ cancelled = FALSE
        /\ sent = <<>>
        /\ projected = <<>>

-----------------------------------------------------------------------------
(* The queue.                                                              *)

\* Mutant: the bound is one off.
FullTooLate == Len(queue) > QueueDepth

Full == Len(queue) >= QueueDepth

\* Mutant: a full queue drops the record instead of holding the producer.
ConsumeOrDrop(r) ==
  /\ queue' = IF Full THEN queue ELSE Append(queue, r)
  /\ sent' = Append(sent, r)

\* Consume blocks while the queue is full.
Consume(r) ==
  /\ ~Full
  /\ queue' = Append(queue, r)
  /\ sent' = Append(sent, r)

-----------------------------------------------------------------------------
(* main                                                                    *)

\* Simulator.Replay, one registration at a time, in roster order.
Replay ==
  /\ main = "replaying" /\ replayed < RosterSize
  /\ Consume(Registration(replayed + 1))
  /\ replayed' = replayed + 1
  /\ UNCHANGED <<main, barrier, ingest, lifecycle, source, closer, cancelled, projected>>

\* Ingest.Barrier: enqueue the barrier behind everything replayed.
PostBarrier ==
  /\ main = "replaying" /\ replayed = RosterSize
  /\ ~Full
  /\ queue' = Append(queue, Barrier)
  /\ main' = "waiting"
  /\ UNCHANGED <<replayed, barrier, ingest, lifecycle, source, closer, cancelled, sent, projected>>

\* Mutant: nobody waits for the barrier.
BarrierIgnored == TRUE

\* <-ingest.Barrier()
BarrierReached == barrier = "closed"

\* Publisher.MarkReady, once the wait is over.
MarkReady ==
  /\ main = "waiting" /\ BarrierReached
  /\ lifecycle' = "READY"
  /\ main' = "launching"
  /\ UNCHANGED <<replayed, queue, barrier, ingest, source, closer, cancelled, sent, projected>>

\* go source.Run, go the shutdown goroutine, ListenAndServe.
Launch ==
  /\ main = "launching"
  /\ source' = "ticking"
  /\ closer' = "waiting"
  /\ main' = "serving"
  /\ UNCHANGED <<replayed, queue, barrier, ingest, lifecycle, cancelled, sent, projected>>

\* ListenAndServe returns as soon as Shutdown is called, and the process ends.
Exit ==
  /\ main = "serving" /\ closer = "shutting"
  /\ main' = "exited"
  /\ UNCHANGED <<replayed, queue, barrier, ingest, lifecycle, source, closer, cancelled, sent, projected>>

-----------------------------------------------------------------------------
(* The other goroutines.                                                   *)

\* Ingest.Run takes a record.
ProjectNext ==
  /\ ingest = "running" /\ queue # <<>> /\ IsRecord(Head(queue))
  /\ projected' = Append(projected, Head(queue))
  /\ queue' = Tail(queue)
  /\ UNCHANGED <<main, replayed, barrier, ingest, lifecycle, source, closer, cancelled, sent>>

\* Mutant: a barrier is taken off the queue and forgotten.
BarrierForgotten == barrier

\* close(next.barrier)
BarrierClosed == "closed"

\* Ingest.Run takes the barrier.
ReachBarrier ==
  /\ ingest = "running" /\ queue # <<>> /\ ~IsRecord(Head(queue))
  /\ barrier' = BarrierClosed
  /\ queue' = Tail(queue)
  /\ UNCHANGED <<main, replayed, ingest, lifecycle, source, closer, cancelled, sent, projected>>

\* Ingest.Run may see the context end while records are still queued: a select
\* with two ready cases takes either.
StopIngest ==
  /\ ingest = "running" /\ cancelled
  /\ ingest' = "stopped"
  /\ UNCHANGED <<main, replayed, queue, barrier, lifecycle, source, closer, cancelled, sent, projected>>

\* Simulator.Run: a tick starts a Step...
SourceTick ==
  /\ source = "ticking" /\ Reports < MaxReports
  /\ source' = "stepping"
  /\ UNCHANGED <<main, replayed, queue, barrier, ingest, lifecycle, closer, cancelled, sent, projected>>

\* ...which publishes any number of records, duplicates and late ones among
\* them, and is held up by a full queue...
SourceConsume(v) ==
  /\ source = "stepping" /\ Reports < MaxReports
  /\ Consume(Report(v))
  /\ UNCHANGED <<main, replayed, barrier, ingest, lifecycle, source, closer, cancelled, projected>>

\* ...and ends.
SourceStepDone ==
  /\ source = "stepping"
  /\ source' = "ticking"
  /\ UNCHANGED <<main, replayed, queue, barrier, ingest, lifecycle, closer, cancelled, sent, projected>>

\* The source looks at the context between steps only.
StopSource ==
  /\ source = "ticking" /\ cancelled
  /\ source' = "stopped"
  /\ UNCHANGED <<main, replayed, queue, barrier, ingest, lifecycle, closer, cancelled, sent, projected>>

\* Mutant: the server waits for the source to stop publishing.
SourceStopped == cancelled /\ source = "stopped"

\* <-ctx.Done()
ContextDone == cancelled

\* The shutdown goroutine wakes and calls server.Shutdown.
Shutdown ==
  /\ closer = "waiting" /\ ContextDone
  /\ closer' = "shutting"
  /\ UNCHANGED <<main, replayed, queue, barrier, ingest, lifecycle, source, cancelled, sent, projected>>

\* SIGINT or SIGTERM.
Interrupt ==
  /\ ~cancelled
  /\ cancelled' = TRUE
  /\ UNCHANGED <<main, replayed, queue, barrier, ingest, lifecycle, source, closer, sent, projected>>

Main   == Replay \/ PostBarrier \/ MarkReady \/ Launch \/ Exit
Ingest == ProjectNext \/ ReachBarrier
Source == SourceTick \/ (\E v \in Fleet : SourceConsume(v)) \/ SourceStepDone \/ StopSource

\* Nothing runs once main has returned.
Next == main # "exited" /\ (Main \/ Ingest \/ StopIngest \/ Source \/ Shutdown \/ Interrupt)

Spec == Init /\ [][Next]_vars

\* Every goroutine that can run does; a select whose ctx.Done case stays ready
\* takes it in the end.
FairSpec ==
  /\ Spec
  /\ WF_vars(main # "exited" /\ Main)
  /\ WF_vars(main # "exited" /\ Ingest)
  /\ WF_vars(main # "exited" /\ StopIngest)
  /\ WF_vars(main # "exited" /\ Source)
  /\ WF_vars(main # "exited" /\ Shutdown)

-----------------------------------------------------------------------------
(* Properties.                                                             *)

Items == [kind : {"registration", "report"}, vehicle : Fleet] \cup {Barrier}

\* Every variable has its type, and the queue never exceeds its capacity.
TypeOK ==
  /\ main \in {"replaying", "waiting", "launching", "serving", "exited"}
  /\ replayed \in 0..RosterSize
  /\ queue \in Seq(Items) /\ Len(queue) <= QueueDepth
  /\ barrier \in {"open", "closed"}
  /\ ingest \in {"running", "stopped"}
  /\ lifecycle \in {"STARTING", "READY"}
  /\ source \in {"unstarted", "ticking", "stepping", "stopped"}
  /\ closer \in {"unstarted", "waiting", "shutting"}
  /\ cancelled \in BOOLEAN
  /\ sent \in Seq(Items) /\ projected \in Seq(Items)

\* Ready is a position in the stream: when the view is declared complete, every
\* registration has been projected, not merely published (Ingest.Barrier).
ReadyMeansWholeFleet == lifecycle = "READY" => Registered = Fleet

\* The queue falls behind but neither loses, repeats nor reorders a record,
\* whatever blocks and whoever stops, and a barrier stands behind every record
\* accepted before it (Ingest.Consume, Ingest.Barrier, Ingest.Run).
NothingLostOrReordered == projected \o queue \in {sent, Append(sent, Barrier)}

\* No report reaches the store before the registration of its vehicle, so the
\* unknown-vehicle discard never costs this process a report (Simulator.Replay).
ReportsFindTheirVehicle ==
  \A i \in 1..Len(projected) : projected[i].kind = "report" =>
    Registration(projected[i].vehicle) \in Range(SubSeq(projected, 1, i - 1))

\* Unless it is interrupted, startup ends, even when the roster does not fit in
\* the queue.
StartupCompletes == <>(lifecycle = "READY" \/ cancelled)

\* Once the process is ready an interrupt ends it, even with the queue full and
\* nobody left to drain it.
InterruptEndsReadyProcess == (cancelled /\ lifecycle = "READY") ~> (main = "exited")

=============================================================================
