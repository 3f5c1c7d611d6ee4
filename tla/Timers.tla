------------------------------- MODULE Timers -------------------------------
(***************************************************************************)
(* The timer service that every layer uses (lib/support/timers.cpp).  A    *)
(* timer is split in two.  Its front-end belongs to an execution context,  *)
(* which starts and stops it and runs its callback; its back-end belongs   *)
(* to the thread that ticks.  Commands go from the front-end through three *)
(* buffers, the newest overwriting what was not yet taken, and a queue of  *)
(* signals; expiries come back as tasks for the context's executor.  Both  *)
(* sides number the commands: an expiry of any but the latest is dropped.  *)
(*                                                                         *)
(* A destroyed timer goes to a pool, and the next unique_timer, perhaps of *)
(* another context, gets the same object.  Time is the number of ticks a   *)
(* timer has left.                                                         *)
(***************************************************************************)
EXTENDS Integers, Sequences, FiniteSets, TLC

CONSTANTS
  NofContexts, \* execution contexts that own timers
  Capacity,    \* timers created with the manager, in the pool from the start
  MaxTimers,   \* bound: timers in all
  Durations,   \* durations a context sets, in ticks
  MaxCmds      \* bound: commands to one timer

ASSUME TimersAssumption ==
  /\ NofContexts \in Nat
  /\ Capacity \in Nat /\ MaxTimers \in Nat /\ Capacity <= MaxTimers
  /\ Durations \subseteq Nat
  /\ MaxCmds \in Nat

Ids == 1..MaxTimers
NoCmd == [cmd_id |-> 0, action |-> "none", duration |-> 0]   \* a buffer whose id is invalid
Contexts == 1..NofContexts
NoOne == 0
INVALID_DURATION == -1
Longer(d) == IF d = 0 THEN 1 ELSE d
MaxElapsed == CHOOSE m \in Durations \cup {1} : \A d \in Durations \cup {1} : d <= m

VARIABLES
  timer_free_list,
  timers,      \* ids the back-end knows
  pending_timers_to_create,
  front,       \* state, duration, exec, held (by a unique_timer), current cmd_id
  buffers,     \* the three buffers of a timer's channel
  ptr,         \* which of them is the write, the middle and the read buffer
  pushing,     \* per context: the push in progress
  signals,     \* timers_with_pending_events
  back,        \* state, cmd_id, ticks left
  tick,        \* the tick in progress: its phase, signals taken, timers due
  failed_to_trigger_timers,
  tasks,       \* per context: deferred expiries
  elapsed,     \* ghost: ticks since the latest start command
  broken       \* ghost: an assertion failed or a callback ran that should not

frontend == <<front, buffers, ptr, pushing>>
backend == <<timers, back, tick, failed_to_trigger_timers>>
vars == <<timer_free_list, pending_timers_to_create, frontend, signals, backend, tasks, elapsed, broken>>

Init ==
  /\ timer_free_list = 1..Capacity
  /\ timers = 1..Capacity
  /\ pending_timers_to_create = {}
  /\ front = [t \in Ids |-> [state |-> "stopped", duration |-> INVALID_DURATION,
                             exec |-> NoOne, held |-> FALSE, cmd_id |-> 0]]
  /\ buffers = [t \in Ids |-> [b \in 1..3 |-> NoCmd]]
  /\ ptr = [t \in Ids |-> [read |-> 1, middle |-> 2, write |-> 3]]
  /\ pushing = [c \in Contexts |-> [id |-> 0, step |-> "none"]]
  /\ signals = <<>>
  /\ back = [t \in Ids |-> [state |-> "stopped", cmd_id |-> 0, left |-> 0]]
  /\ tick = [phase |-> "expiry", batch |-> <<>>, due |-> {}]
  /\ failed_to_trigger_timers = <<>>
  /\ tasks = [c \in Contexts |-> <<>>]
  /\ elapsed = [t \in Ids |-> 0]
  /\ broken = FALSE

-----------------------------------------------------------------------------
(* The front-end.  A push raises the command number, fills the write       *)
(* buffer, exchanges it with the middle one and signals the back-end if    *)
(* what came back had been processed.                                      *)
Ready(c) == pushing[c].step = "none"
Owns(c, t) == Ready(c) /\ front[t].held /\ front[t].exec = c

push(c, t, f, action) ==
  /\ front[t].cmd_id < MaxCmds
  /\ front' = [front EXCEPT ![t] = [f EXCEPT !.cmd_id = @ + 1]]
  /\ buffers' = [buffers EXCEPT ![t][ptr[t].write] =
       [cmd_id |-> front[t].cmd_id + 1, action |-> action, duration |-> f.duration]]
  /\ pushing' = [pushing EXCEPT ![c] = [id |-> t, step |-> "written"]]
  /\ elapsed' = [elapsed EXCEPT ![t] = IF action = "start" THEN 0 ELSE @]
  /\ UNCHANGED <<ptr, signals, backend, tasks, broken>>

push_exchange(c) ==
  LET t == pushing[c].id
  IN  /\ pushing[c].step = "written"
      /\ ptr' = [ptr EXCEPT ![t].write = ptr[t].middle, ![t].middle = ptr[t].write]
      /\ pushing' = [pushing EXCEPT ![c].step =
           IF buffers[t][ptr[t].middle] = NoCmd THEN "signal" ELSE "none"]
      /\ UNCHANGED <<timer_free_list, pending_timers_to_create, front, buffers, signals, backend, tasks, elapsed, broken>>

notify_timer_update(c) ==
  /\ pushing[c].step = "signal"
  /\ signals' = Append(signals, pushing[c].id)
  /\ pushing' = [pushing EXCEPT ![c].step = "none"]
  /\ UNCHANGED <<timer_free_list, pending_timers_to_create, front, buffers, ptr, backend, tasks, elapsed, broken>>

(* A new unique_timer takes a pooled timer, or creates one.                *)
create_from_pool(c, t) ==
  /\ Ready(c) /\ t \in timer_free_list
  /\ timer_free_list' = timer_free_list \ {t}
  /\ front' = [front EXCEPT ![t].exec = c, ![t].held = TRUE]
  /\ broken' = (broken \/ front[t].exec # NoOne)
  /\ UNCHANGED <<pending_timers_to_create, buffers, ptr, pushing, signals, backend, tasks, elapsed>>

create_new(c, t) ==
  /\ Ready(c) /\ timer_free_list = {}
  /\ \A u \in Ids : u < t <=> u \in timers \cup pending_timers_to_create
  /\ push(c, t, [front[t] EXCEPT !.exec = c, !.held = TRUE], "create")
  /\ pending_timers_to_create' = pending_timers_to_create \cup {t}
  /\ UNCHANGED timer_free_list

set(c, t, duration) ==
  /\ Owns(c, t) /\ duration # front[t].duration
  /\ LET f == [front[t] EXCEPT !.duration = duration]
     IN  \/ f.state = "running" /\ push(c, t, f, "start")
         \/ /\ f.state # "running"
            /\ front' = [front EXCEPT ![t] = f]
            /\ UNCHANGED <<buffers, ptr, pushing, signals, backend, tasks, elapsed, broken>>
  /\ UNCHANGED <<timer_free_list, pending_timers_to_create>>

run(c, t) ==
  /\ Owns(c, t) /\ front[t].duration # INVALID_DURATION
  /\ push(c, t, [front[t] EXCEPT !.state = "running"], "start")
  /\ UNCHANGED <<timer_free_list, pending_timers_to_create>>

stop(c, t) ==
  /\ Owns(c, t) /\ front[t].state = "running"
  /\ push(c, t, [front[t] EXCEPT !.state = "stopped"], "stop")
  /\ UNCHANGED <<timer_free_list, pending_timers_to_create>>

destroy(c, t) ==
  /\ Owns(c, t)
  /\ push(c, t, [front[t] EXCEPT !.state = "stopped", !.held = FALSE], "destroy")
  /\ UNCHANGED <<timer_free_list, pending_timers_to_create>>

(* The executor runs a deferred expiry.                                    *)
expire_AnyEpoch(c) ==
  /\ Ready(c) /\ tasks[c] # <<>>
  /\ tasks' = [tasks EXCEPT ![c] = Tail(@)]
  /\ LET t == Head(tasks[c]).id
     IN  /\ front' = [front EXCEPT ![t].state = "expired"]
         /\ broken' = (broken \/ front[t].state # "running" \/ ~front[t].held
                         \/ front[t].exec # c \/ elapsed[t] < Longer(front[t].duration))
  /\ UNCHANGED <<timer_free_list, pending_timers_to_create, buffers, ptr, pushing, signals, backend, elapsed>>

expire(c) ==
  /\ Ready(c) /\ tasks[c] # <<>>
  /\ tasks' = [tasks EXCEPT ![c] = Tail(@)]
  /\ LET t == Head(tasks[c]).id
     IN  IF front[t].cmd_id = Head(tasks[c]).epoch
         THEN /\ front' = [front EXCEPT ![t].state = "expired"]
              /\ broken' = (broken \/ front[t].state # "running" \/ ~front[t].held
                              \/ front[t].exec # c \/ elapsed[t] < Longer(front[t].duration))
         ELSE UNCHANGED <<front, broken>>
  /\ UNCHANGED <<timer_free_list, pending_timers_to_create, buffers, ptr, pushing, signals, backend, elapsed>>

-----------------------------------------------------------------------------
(* The back-end: one tick is a pass through four phases.  First the        *)
(* signals: each is a timer whose latest command is to be taken.           *)
pop_updated_timers ==
  /\ tick.phase = "expiry" /\ tick.due = {}
  /\ tick' = [tick EXCEPT !.phase = "commands", !.batch = signals]
  /\ signals' = <<>>
  /\ UNCHANGED <<timer_free_list, pending_timers_to_create, frontend, timers, back,
                 failed_to_trigger_timers, tasks, elapsed, broken>>

(* Whatever the command, a running timer stops first.                      *)
Handled(b, cmd) ==
  CASE cmd.action = "start" -> [state |-> "running", cmd_id |-> cmd.cmd_id, left |-> Longer(cmd.duration)]
    [] cmd.action = "create" -> [b EXCEPT !.cmd_id = cmd.cmd_id]
    [] OTHER -> [state |-> "stopped", cmd_id |-> cmd.cmd_id, left |-> 0]

handle_timer_updates_Unmarked(t, cmd) ==
  /\ ptr' = [ptr EXCEPT ![t].read = ptr[t].middle, ![t].middle = ptr[t].read]
  /\ back' = [back EXCEPT ![t] = Handled(@, cmd)]
  /\ UNCHANGED <<buffers, front, timer_free_list>>

handle_timer_updates(t, cmd) ==
  /\ ptr' = [ptr EXCEPT ![t].read = ptr[t].middle, ![t].middle = ptr[t].read]
  /\ buffers' = [buffers EXCEPT ![t][ptr[t].middle] = NoCmd]
  /\ IF cmd = NoCmd
     THEN UNCHANGED <<back, front, timer_free_list>>
     ELSE /\ back' = [back EXCEPT ![t] = Handled(@, cmd)]
          /\ IF cmd.action = "destroy"
             THEN /\ front' = [front EXCEPT ![t].state = "stopped", ![t].duration = INVALID_DURATION,
                                            ![t].exec = NoOne]
                  /\ timer_free_list' = timer_free_list \cup {t}
             ELSE UNCHANGED <<front, timer_free_list>>

handle_timer_commands ==
  LET t == Head(tick.batch)
      known == IF t \in timers THEN timers ELSE timers \cup pending_timers_to_create
  IN  /\ tick.phase = "commands" /\ tick.batch # <<>>
      /\ tick' = [tick EXCEPT !.batch = Tail(@)]
      /\ timers' = known
      /\ pending_timers_to_create' = pending_timers_to_create \ known
      /\ IF t \in known
         THEN handle_timer_updates(t, buffers[t][ptr[t].middle])
         ELSE UNCHANGED <<ptr, buffers, back, front, timer_free_list>>
      /\ UNCHANGED <<pushing, signals, failed_to_trigger_timers, tasks, elapsed, broken>>

(* An expiry of the latest command is handed to the executor of the        *)
(* front-end; if its queue is full, the expiry is postponed.               *)
IsLatest(t) == back[t].cmd_id = front[t].cmd_id
trigger_timeout_handling(t) ==
  /\ front[t].exec \in Contexts
  /\ tasks' = [tasks EXCEPT ![front[t].exec] = Append(@, [id |-> t, epoch |-> back[t].cmd_id])]

Postponed ==
  /\ tick.phase = "commands" /\ tick.batch = <<>> /\ failed_to_trigger_timers # <<>>
  /\ UNCHANGED <<timer_free_list, pending_timers_to_create, frontend, signals, timers, back, tick, elapsed, broken>>
Oldest == Head(failed_to_trigger_timers)
StillDue == back[Oldest.id].cmd_id = Oldest.cmd_id /\ IsLatest(Oldest.id)

handle_postponed_timeouts ==
  /\ Postponed
  /\ IF StillDue THEN trigger_timeout_handling(Oldest.id) ELSE UNCHANGED tasks
  /\ failed_to_trigger_timers' = Tail(failed_to_trigger_timers)

(* Time advances when nothing is postponed or the queue is still full.     *)
Advance ==
  LET running == {t \in timers : back[t].state = "running"}
  IN  /\ tick.phase = "commands" /\ tick.batch = <<>>
      /\ failed_to_trigger_timers # <<>> => StillDue
      /\ tick' = [tick EXCEPT !.phase = "expiry", !.due = {t \in running : back[t].left = 1}]
      /\ back' = [t \in Ids |-> IF t \in running THEN [back[t] EXCEPT !.left = @ - 1] ELSE back[t]]
      /\ elapsed' = [t \in Ids |-> IF elapsed[t] < MaxElapsed THEN elapsed[t] + 1 ELSE elapsed[t]]
      /\ UNCHANGED <<timer_free_list, pending_timers_to_create, frontend, signals, timers,
                     failed_to_trigger_timers, tasks, broken>>

stop_timer_backend_NotPostponed(t) ==
  /\ tick.phase = "expiry" /\ t \in tick.due
  /\ tick' = [tick EXCEPT !.due = @ \ {t}]
  /\ back' = [back EXCEPT ![t].state = "expired"]
  /\ UNCHANGED tasks \/ (IsLatest(t) /\ trigger_timeout_handling(t))
  /\ UNCHANGED <<timer_free_list, pending_timers_to_create, frontend, signals, timers,
                 failed_to_trigger_timers, elapsed, broken>>

stop_timer_backend(t) ==
  /\ tick.phase = "expiry" /\ t \in tick.due
  /\ tick' = [tick EXCEPT !.due = @ \ {t}]
  /\ back' = [back EXCEPT ![t].state = "expired"]
  /\ IF IsLatest(t)
     THEN \/ trigger_timeout_handling(t) /\ UNCHANGED failed_to_trigger_timers
          \/ /\ failed_to_trigger_timers' =
                  Append(failed_to_trigger_timers, [id |-> t, cmd_id |-> back[t].cmd_id])
             /\ UNCHANGED tasks
     ELSE UNCHANGED <<tasks, failed_to_trigger_timers>>
  /\ UNCHANGED <<timer_free_list, pending_timers_to_create, frontend, signals, timers, elapsed, broken>>

-----------------------------------------------------------------------------
Tick == pop_updated_timers \/ handle_timer_commands \/ Advance \/ \E t \in Ids : stop_timer_backend(t)
Push(c) == push_exchange(c) \/ notify_timer_update(c)

Next ==
  \/ \E c \in Contexts :
       \/ Push(c) \/ expire(c)
       \/ \E t \in Ids :
            \/ create_from_pool(c, t) \/ create_new(c, t)
            \/ \E d \in Durations : set(c, t, d)
            \/ run(c, t) \/ stop(c, t) \/ destroy(c, t)
  \/ Tick \/ handle_postponed_timeouts

(* The ticks go on, contexts finish what they began and run their tasks,   *)
(* and a queue that is asked again and again is not full for ever.         *)
Fairness ==
  /\ WF_vars(Tick)
  /\ SF_vars(handle_postponed_timeouts)
  /\ \A c \in Contexts : WF_vars(Push(c)) /\ WF_vars(expire(c))

Spec == Init /\ [][Next]_vars
FairSpec == Spec /\ Fairness

-----------------------------------------------------------------------------
(* A callback runs only for the latest start of its timer, in the context  *)
(* that started it, while the timer is running there, once, and not before *)
(* its duration has passed; so never after a stop, a restart or the        *)
(* destruction, even if the timer object serves another context by then    *)
(* (trigger_timeout_handling, timers.cpp:522-524, 559).                    *)
CallbackIsCurrent ==
  /\ ~broken
  /\ \A t \in tick.due : IsLatest(t) => front[t].exec \in Contexts

(* No command is lost and none is announced in vain: a command waits in    *)
(* the middle buffer exactly while one signal for it is queued, taken or   *)
(* about to be queued (backend_channel, timers.cpp:160-170, 459-461).      *)
Announced(t) ==
  Len(SelectSeq(signals, LAMBDA u : u = t)) + Len(SelectSeq(tick.batch, LAMBDA u : u = t))
    + Cardinality({c \in Contexts : pushing[c].id = t /\ pushing[c].step = "signal"})
SignalledOnce ==
  \A t \in Ids : Announced(t) = IF buffers[t][ptr[t].middle] = NoCmd THEN 0 ELSE 1

(* A timer that its owner sees running expires, unless it is stopped or    *)
(* restarted: no expiry is dropped for good, with commands overwriting     *)
(* each other and full queues postponing it (handle_postponed_timeouts).   *)
RunningExpires == []<>(\A t \in Ids : front[t].state # "running")
=============================================================================
