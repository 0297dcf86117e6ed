------------------------------ MODULE DevLock ------------------------------
(***************************************************************************)
(* The device lock (device/dev_lock.rs) and the worker threads that share  *)
(* it (DeviceHandle::event_loop).  A worker keeps the read lock while it   *)
(* waits for events; a UAPI set handler upgrades to the write lock with    *)
(* try_writeable, which marks wants_write and asks the others to yield.    *)
(*                                                                         *)
(* mutex is the holder of the wants_write mutex.  Every critical section   *)
(* under it is one step, except that read() still holds it while it waits  *)
(* for the inner RwLock.  readers and writer are the parking_lot RwLock:   *)
(* writer owns the writer bit, which stops new readers, and may write once *)
(* the readers have drained.                                               *)
(***************************************************************************)
EXTENDS Naturals, FiniteSets

CONSTANTS Workers,    \* worker threads
          NoThread,
          ApiEvents,  \* UAPI event sources, one in a device
          MayExit,    \* does a signal or the UAPI monitor end the program
          MayPanic    \* may a UAPI set panic, as update_peer can

ASSUME DevLockAssumption ==
  /\ NoThread \notin Workers
  /\ ApiEvents \in Nat
  /\ MayExit \in BOOLEAN
  /\ MayPanic \in BOOLEAN

VARIABLES pc, mutex, wants_write, readers, writer, yield_notice, exit_notice

lockVars == <<pc, mutex, wants_write, readers, writer, yield_notice, exit_notice>>
noticeVars == <<yield_notice, exit_notice>>

(* From marking wants_write to clearing it.                                *)
WriteSection == {"relock", "prep", "release", "acquire", "drain", "mutate",
                 "resume", "signal"}
(* A handler of the UAPI event is running.                                 *)
ApiHandler == WriteSection \union {"mark", "wait_mark"}
(* Holding the read lock for certain; at "mark" a thread may have lost it. *)
Reading == {"poll", "work", "prep", "release", "signal"}
(* Waiting on the condition variable.                                      *)
Parked == {"wait_read", "wait_mark"}

PC == {"read", "read_inner", "wait_read", "poll", "work", "exited", "panicked"}
        \union ApiHandler

LockInit ==
  /\ pc = [t \in Workers |-> "read"]
  /\ mutex = NoThread
  /\ wants_write = FALSE
  /\ readers = {}
  /\ writer = NoThread
  /\ yield_notice = FALSE
  /\ exit_notice = FALSE

Goto(t, from, to) == pc[t] = from /\ pc' = [pc EXCEPT ![t] = to]

-----------------------------------------------------------------------------
(* Lock::read *)

read(t) ==
  /\ mutex = NoThread
  /\ \/ wants_write /\ Goto(t, "read", "wait_read") /\ UNCHANGED mutex
     \/ ~ wants_write /\ Goto(t, "read", "read_inner") /\ mutex' = t
  /\ UNCHANGED <<wants_write, readers, writer, noticeVars>>

read_inner(t) ==
  /\ writer = NoThread
  /\ Goto(t, "read_inner", "poll")
  /\ readers' = readers \union {t}
  /\ mutex' = NoThread
  /\ UNCHANGED <<wants_write, writer, noticeVars>>

-----------------------------------------------------------------------------
(* DeviceHandle::event_loop: what queue.wait returns to a thread.          *)

(* Packets, timers, UAPI get: the handler returns Action::Continue.        *)
start_handler(t) ==
  /\ Goto(t, "poll", "work")
  /\ UNCHANGED <<mutex, wants_write, readers, writer, noticeVars>>

finish_handler(t) ==
  /\ Goto(t, "work", "poll")
  /\ UNCHANGED <<mutex, wants_write, readers, writer, noticeVars>>

(* The notifier is level triggered: every polling thread gets it until it  *)
(* is cancelled.  Action::Yield drops the read lock and takes it again.    *)
yield(t) ==
  /\ yield_notice
  /\ Goto(t, "poll", "read")
  /\ readers' = readers \ {t}
  /\ UNCHANGED <<mutex, wants_write, writer, noticeVars>>

(* Mutant: a thread that exits does not pass the notice on.                *)
exit_quietly(t) ==
  /\ exit_notice
  /\ Goto(t, "poll", "exited")
  /\ readers' = readers \ {t}
  /\ exit_notice' = FALSE
  /\ UNCHANGED <<mutex, wants_write, writer, yield_notice>>

(* Action::Exit: trigger_exit once more, and return.                       *)
exit(t) ==
  /\ exit_notice
  /\ Goto(t, "poll", "exited")
  /\ readers' = readers \ {t}
  /\ exit_notice' = TRUE
  /\ UNCHANGED <<mutex, wants_write, writer, yield_notice>>

(* SIGINT, SIGTERM, a removed UAPI socket or a closed UAPI descriptor.     *)
exit_event(t) ==
  /\ MayExit
  /\ Goto(t, "poll", "exited")
  /\ readers' = readers \ {t}
  /\ exit_notice' = TRUE
  /\ UNCHANGED <<mutex, wants_write, writer, yield_notice>>

(* The UAPI event is one-shot: one thread at a time runs its handler.      *)
api_event(t) ==
  /\ Cardinality({u \in Workers : pc[u] \in ApiHandler}) < ApiEvents
  /\ Goto(t, "poll", "mark")
  /\ UNCHANGED <<mutex, wants_write, readers, writer, noticeVars>>

-----------------------------------------------------------------------------
(* LockReadGuard::try_writeable *)

(* Mutant: a second writer does not wait for the first.                    *)
mark_at_once(t) ==
  /\ mutex = NoThread
  /\ readers' = readers \ {t}
  /\ Goto(t, "mark", "relock") /\ wants_write' = TRUE
  /\ UNCHANGED <<mutex, writer, noticeVars>>

(* The read lock is given up while waiting for another writer.             *)
mark(t) ==
  /\ mutex = NoThread
  /\ readers' = readers \ {t}
  /\ \/ wants_write /\ Goto(t, "mark", "wait_mark") /\ UNCHANGED wants_write
     \/ ~ wants_write /\ Goto(t, "mark", "relock") /\ wants_write' = TRUE
  /\ UNCHANGED <<mutex, writer, noticeVars>>

relock(t) ==
  /\ writer = NoThread
  /\ Goto(t, "relock", "prep")
  /\ readers' = readers \union {t}
  /\ UNCHANGED <<mutex, wants_write, writer, noticeVars>>

(* Mutant: the other threads are not asked to yield.                       *)
prep_silently(t) ==
  /\ Goto(t, "prep", "release")
  /\ UNCHANGED <<mutex, wants_write, readers, writer, noticeVars>>

(* prep_func: trigger_yield.                                               *)
prep(t) ==
  /\ Goto(t, "prep", "release")
  /\ yield_notice' = TRUE
  /\ UNCHANGED <<mutex, wants_write, readers, writer, exit_notice>>

release(t) ==
  /\ Goto(t, "release", "acquire")
  /\ readers' = readers \ {t}
  /\ UNCHANGED <<mutex, wants_write, writer, noticeVars>>

acquire(t) ==
  /\ writer = NoThread
  /\ Goto(t, "acquire", "drain")
  /\ writer' = t
  /\ UNCHANGED <<mutex, wants_write, readers, noticeVars>>

drain(t) ==
  /\ readers = {}
  /\ Goto(t, "drain", "mutate")
  /\ UNCHANGED <<mutex, wants_write, readers, writer, noticeVars>>

(* Mutant: the yield notice stays up.                                      *)
mutate_noisily(t) ==
  /\ Goto(t, "mutate", "resume")
  /\ writer' = NoThread
  /\ UNCHANGED <<mutex, wants_write, readers, noticeVars>>

(* mut_func: cancel_yield, then the UAPI commands.                         *)
mutate(t) ==
  /\ Goto(t, "mutate", "resume")
  /\ writer' = NoThread
  /\ yield_notice' = FALSE
  /\ UNCHANGED <<mutex, wants_write, readers, exit_notice>>

(* update_peer panics on a key it knows: the write guard is dropped while  *)
(* the thread unwinds, wants_write is not cleared.                         *)
panic(t) ==
  /\ MayPanic
  /\ Goto(t, "mutate", "panicked")
  /\ writer' = NoThread
  /\ yield_notice' = FALSE
  /\ UNCHANGED <<mutex, wants_write, readers, exit_notice>>

resume(t) ==
  /\ writer = NoThread
  /\ Goto(t, "resume", "signal")
  /\ readers' = readers \union {t}
  /\ UNCHANGED <<mutex, wants_write, writer, noticeVars>>

(* Mutant: one waiting thread is woken, not all.                           *)
signal_one(t) ==
  /\ mutex = NoThread
  /\ pc[t] = "signal"
  /\ wants_write' = FALSE
  /\ \/ /\ \A u \in Workers : pc[u] \notin Parked
        /\ pc' = [pc EXCEPT ![t] = "poll"]
     \/ \E u \in Workers :
          /\ pc[u] \in Parked
          /\ pc' = [pc EXCEPT ![t] = "poll",
                              ![u] = IF @ = "wait_read" THEN "read" ELSE "mark"]
  /\ UNCHANGED <<mutex, readers, writer, noticeVars>>

signal(t) ==
  /\ mutex = NoThread
  /\ pc[t] = "signal"
  /\ wants_write' = FALSE
  /\ pc' = [u \in Workers |-> CASE u = t -> "poll"
                                [] pc[u] = "wait_read" -> "read"
                                [] pc[u] = "wait_mark" -> "mark"
                                [] OTHER -> pc[u]]
  /\ UNCHANGED <<mutex, readers, writer, noticeVars>>

-----------------------------------------------------------------------------
LockNext ==
  \E t \in Workers :
    \/ read(t) \/ read_inner(t)
    \/ start_handler(t) \/ finish_handler(t)
    \/ yield(t) \/ exit(t) \/ exit_event(t) \/ api_event(t)
    \/ mark(t) \/ relock(t) \/ prep(t) \/ release(t) \/ acquire(t)
    \/ drain(t) \/ mutate(t) \/ panic(t) \/ resume(t) \/ signal(t)

LockSpec == LockInit /\ [][LockNext]_lockVars

(* Handlers return and threads run (WF).  SF: parking_lot mutexes are      *)
(* eventually fair and write access is "very rare" (Lock's assumption b),  *)
(* so a thread in read() or about to write gets the mutex between two      *)
(* writers; and epoll returns ready descriptors in turn, so a thread that  *)
(* polls over and over gets a raised notice.                               *)
LockFairness ==
  \A t \in Workers :
    /\ SF_lockVars(~ wants_write /\ (read(t) \/ mark(t)))
    /\ SF_lockVars(yield(t)) /\ SF_lockVars(exit(t))
    /\ WF_lockVars(\/ read_inner(t) \/ finish_handler(t) \/ mark(t) \/ relock(t)
                   \/ prep(t) \/ release(t) \/ acquire(t) \/ drain(t) \/ mutate(t)
                   \/ panic(t) \/ resume(t) \/ signal(t))

LockFairSpec == LockSpec /\ LockFairness

-----------------------------------------------------------------------------
(* Type invariant; the guards a thread owns are those its place in the     *)
(* code says it owns.                                                      *)
TypeOK ==
  /\ pc \in [Workers -> PC]
  /\ mutex \in Workers \union {NoThread}
  /\ wants_write \in BOOLEAN
  /\ readers \subseteq Workers
  /\ writer \in Workers \union {NoThread}
  /\ yield_notice \in BOOLEAN
  /\ exit_notice \in BOOLEAN
  /\ \A t \in Workers :
       /\ mutex = t <=> pc[t] = "read_inner"
       /\ writer = t <=> pc[t] \in {"drain", "mutate"}
       /\ pc[t] \in Reading => t \in readers
       /\ t \in readers => pc[t] \in Reading \union {"mark"}

(* "There is no race here because wants_write blocks other threads": from  *)
(* marking to signalling, try_writeable runs in one thread only, and while *)
(* it mutates the device no other thread holds it.                         *)
OneWriter ==
  \A t, u \in Workers :
    pc[t] \in WriteSection =>
      /\ wants_write
      /\ pc[u] \in WriteSection => u = t
      /\ pc[t] = "mutate" => u \notin readers

(* A thread that waits for the RwLock in read() while it holds the mutex   *)
(* never waits for a writer, which would need that mutex to finish.        *)
MutexHolderRuns == \A t \in Workers : pc[t] = "read_inner" => writer = NoThread

(* No wake-up is lost: a thread waits on the condition variable only while *)
(* the writer that will notify it is still to come.                        *)
NoLostWakeup == \A t \in Workers : pc[t] \in Parked => wants_write

(* The yield notice is up only for the writer that waits for it: threads   *)
(* that resume do not spin on a notice nobody cancels.                     *)
NoStaleYield ==
  yield_notice => \E t \in Workers : pc[t] \in {"release", "acquire", "drain", "mutate"}

(* A write section that ended in a panic: nothing below holds after it,    *)
(* since wants_write stays set.                                            *)
Panicked == \E t \in Workers : pc[t] = "panicked"

(* A UAPI set gets write access: the threads that hold the read lock       *)
(* indefinitely are made to yield it.                                      *)
WriterGetsIn == \A t \in Workers : pc[t] = "mark" ~> (pc[t] = "mutate" \/ Panicked)

(* Threads yield their read locks temporarily (try_writeable's comment): a *)
(* thread that waits for a writer gets back to its events.                 *)
ReadersComeBack == \A t \in Workers : pc[t] = "wait_read" ~> (pc[t] = "poll" \/ Panicked)

(* One exit event ends every worker, whatever it is doing, so that wait()  *)
(* joins them all.                                                         *)
ExitReachesAll == exit_notice ~> ((\A t \in Workers : pc[t] = "exited") \/ Panicked)

=============================================================================
