----------------------------- MODULE EventLoop ------------------------------
(***************************************************************************)
(* The loop in which JsContext.eval waits for the promise of a module:     *)
(* js_std_await, js_os_poll, timers and the handlers of descriptors        *)
(* (quickjs-libc.c).                                                       *)
(* The calling goroutine holds ctx.mu all the time.                        *)
(*                                                                         *)
(* Jobs and handlers are scripts, which may enqueue jobs, set and clear    *)
(* timers and handlers, and settle the promise.  Ports are left out:       *)
(* nothing sets js_worker_new_context_func here, so no worker ever runs.   *)
(***************************************************************************)
EXTENDS Integers, FiniteSets, SequencesExt

CONSTANTS
    Fds,            \* file descriptors
    MaxDelay,       \* bound: the longest delay of a timer (below the 10 s that one select waits)
    MaxScriptOps    \* bound: operations of all scripts

VARIABLES
    at,             \* where the loop is: "script", "job", "poll", "select", "returned"
    queued,         \* the number of pending jobs, rt->job_list
    awaited,        \* the state of the promise: "pending" or "settled"
    timers,         \* ts->os_timers: the time that each timer has left
    handlers,       \* ts->os_rw_handlers: a descriptor, and on, which of its rw_func are set
    ready,          \* <<fd, 0>>: fd has input; <<fd, 1>>: fd takes output
    called,         \* what runs: the module's body ("none"), a job, a timer, or the handler of a descriptor
    done            \* operations so far

loopVars == <<at, queued, awaited, timers, handlers, ready, called, done>>

\* The module was evaluated up to its first await, with or without a job queued.
LoopInit ==
    /\ at = "script" /\ queued \in {0, 1} /\ awaited = "pending"
    /\ timers = <<>> /\ handlers = <<>> /\ ready = {}
    /\ called = <<"none", 0>> /\ done = 0

-----------------------------------------------------------------------------
(* What scripts do.                                                        *)

ScriptDoes == at = "script" /\ done < MaxScriptOps /\ done' = done + 1

EnqueueJob ==
    /\ ScriptDoes /\ queued' = queued + 1
    /\ UNCHANGED <<at, awaited, timers, handlers, ready, called>>

SettleAwaited ==
    /\ ScriptDoes /\ awaited' = "settled"
    /\ UNCHANGED <<at, queued, timers, handlers, ready, called>>

js_os_setTimeout(delay) ==
    /\ ScriptDoes /\ timers' = Append(timers, delay)
    /\ UNCHANGED <<at, queued, awaited, handlers, ready, called>>

js_os_clearTimeout(i) ==
    /\ ScriptDoes /\ timers' = RemoveAt(timers, i)
    /\ UNCHANGED <<at, queued, awaited, handlers, ready, called>>

\* A wrong removal: a descriptor stays listed when it has no handler any more.
js_os_setReadHandlerListed(fd, magic, set) ==
    LET known == \E k \in DOMAIN handlers : handlers[k].fd = fd
        listed == IF set /\ ~ known THEN Append(handlers, [fd |-> fd, on |-> {}]) ELSE handlers
        Changed(rh) == IF rh.fd # fd THEN rh
                       ELSE [rh EXCEPT !.on = IF set THEN @ \cup {magic} ELSE @ \ {magic}]
    IN  /\ ScriptDoes
        /\ handlers' = [k \in DOMAIN listed |-> Changed(listed[k])]
        /\ UNCHANGED <<at, queued, awaited, timers, ready, called>>

\* setReadHandler (magic 0) and setWriteHandler (magic 1): a descriptor is
\* listed while it has one of the two.
js_os_setReadHandler(fd, magic, set) ==
    LET known == \E k \in DOMAIN handlers : handlers[k].fd = fd
        listed == IF set /\ ~ known THEN Append(handlers, [fd |-> fd, on |-> {}]) ELSE handlers
        Changed(rh) == IF rh.fd # fd THEN rh
                       ELSE [rh EXCEPT !.on = IF set THEN @ \cup {magic} ELSE @ \ {magic}]
        changed == [k \in DOMAIN listed |-> Changed(listed[k])]
    IN  /\ ScriptDoes
        /\ handlers' = SelectSeq(changed, LAMBDA rh : rh.on # {})
        /\ UNCHANGED <<at, queued, awaited, timers, ready, called>>

\* A script reads all the input, or writes until nothing more is taken.
UseDescriptor(d) ==
    /\ ScriptDoes /\ d \in ready /\ ready' = ready \ {d}
    /\ UNCHANGED <<at, queued, awaited, timers, handlers, called>>

-----------------------------------------------------------------------------
(* The loop.                                                               *)

\* A job is followed by a poll, and a poll that called a handler by the test of
\* the promise: "must stop because the list may have been modified".
ScriptEnds ==
    /\ at = "script" /\ at' = (IF called = <<"job", 0>> THEN "poll" ELSE "job")
    /\ called' = <<"none", 0>>
    /\ UNCHANGED <<queued, awaited, timers, handlers, ready, done>>

js_std_await ==
    /\ at = "job"
    /\ IF awaited = "settled" THEN at' = "returned" /\ UNCHANGED <<queued, called>>
       ELSE IF queued > 0 THEN at' = "script" /\ queued' = queued - 1 /\ called' = <<"job", 0>>
       ELSE at' = "poll" /\ UNCHANGED <<queued, called>>
    /\ UNCHANGED <<awaited, timers, handlers, ready, done>>

Due == {i \in DOMAIN timers : timers[i] = 0}

js_os_pollBlocking ==
    /\ at = "poll"
    /\ IF Due # {} THEN at' = "script" /\ called' = <<"timer", 0>> /\ timers' = RemoveAt(timers, Min(Due))
       ELSE at' = "select" /\ UNCHANGED <<timers, called>>
    /\ UNCHANGED <<queued, awaited, handlers, ready, done>>

\* The first timer that is due is called; without one the loop waits.
js_os_poll ==
    /\ at = "poll"
    /\ IF handlers = <<>> /\ timers = <<>> THEN at' = "job" /\ UNCHANGED <<timers, called>>
       ELSE IF Due # {} THEN /\ at' = "script" /\ called' = <<"timer", 0>>
                             /\ timers' = RemoveAt(timers, Min(Due))
       ELSE at' = "select" /\ UNCHANGED <<timers, called>>
    /\ UNCHANGED <<queued, awaited, handlers, ready, done>>

\* select returns for a descriptor that is ready for one of its handlers, or
\* when the nearest timer is due; the first reported descriptor is served, its
\* read handler before its write handler.
SelectReturns ==
    /\ at = "select"
    /\ LET Reported(rh) == {m \in rh.on : <<rh.fd, m>> \in ready}
           first == SelectSeq(handlers, LAMBDA rh : Reported(rh) # {})
       IN  \/ /\ first # <<>> /\ at' = "script"
              /\ called' = <<Head(first).fd, Min(Reported(Head(first)))>>
           \/ /\ first = <<>> /\ Due # {}
              /\ at' = "job" /\ UNCHANGED called
    /\ UNCHANGED <<queued, awaited, timers, handlers, ready, done>>

\* Time passes, whoever runs.
Tick ==
    /\ at # "returned" /\ \E i \in DOMAIN timers : timers[i] > 0
    /\ timers' = [i \in DOMAIN timers |-> Max({0, timers[i] - 1})]
    /\ UNCHANGED <<at, queued, awaited, handlers, ready, called, done>>

\* Only select looks whether a descriptor is ready, and only at those with a
\* handler: one that gets ready before is taken to get ready there.
GetsReady(d) ==
    /\ at = "select" /\ \E k \in DOMAIN handlers : handlers[k].fd = d[1] /\ d[2] \in handlers[k].on
    /\ d \notin ready /\ ready' = ready \cup {d}
    /\ UNCHANGED <<at, queued, awaited, timers, handlers, called, done>>

Loop == ScriptEnds \/ js_std_await \/ js_os_poll \/ SelectReturns

LoopNext ==
    \/ EnqueueJob \/ SettleAwaited
    \/ \E delay \in 0..MaxDelay : js_os_setTimeout(delay)
    \/ \E i \in DOMAIN timers : js_os_clearTimeout(i)
    \/ \E fd \in Fds, magic \in {0, 1} :
          \/ \E set \in BOOLEAN : js_os_setReadHandler(fd, magic, set)
          \/ UseDescriptor(<<fd, magic>>) \/ GetsReady(<<fd, magic>>)
    \/ Loop \/ Tick

-----------------------------------------------------------------------------
(* Properties                                                              *)

LoopTypeOK ==
    /\ at \in {"script", "job", "poll", "select", "returned"} /\ awaited \in {"pending", "settled"}
    /\ queued \in 0..(MaxScriptOps + 1) /\ timers \in Seq(0..MaxDelay)
    /\ handlers \in Seq([fd : Fds, on : (SUBSET {0, 1}) \ {{}}]) /\ ready \subseteq Fds \X {0, 1}
    /\ called \in (Fds \cup {"none", "job", "timer"}) \X {0, 1} /\ done \in 0..MaxScriptOps

\* Every timer is served, whatever was set before or after it, unless the
\* promise is settled first; and as long as no handler is installed,
\* js_std_await gets round to every job and returns once the promise is
\* settled: it never sleeps for longer than the nearest timer.
LoopProgress ==
    /\ (timers # <<>>) ~> (timers = <<>> \/ awaited = "settled")
    /\ (queued > 0) ~> (queued = 0 \/ awaited = "settled" \/ handlers # <<>>)
    /\ (awaited = "settled") ~> (at = "returned" \/ handlers # <<>>)

=============================================================================
