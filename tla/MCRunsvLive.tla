---------------------------- MODULE MCRunsvLive ----------------------------
(* Liveness of Runsv for TLC: last remembers the last byte of               *)
(* supervise/control that ctrl() has handled.                               *)
EXTENDS Runsv

VARIABLE last

LiveInit == Init /\ last = "none"
LiveNext == Next /\ last' = IF pc = "ctl" /\ pc' = "ctllog" /\ fifo[0] # <<>> THEN Head(fifo[0]) ELSE last
LiveSpec == LiveInit /\ [][LiveNext]_<<vars, last>> /\ Fairness

Executing(name) == \E p \in live : prog[p] = name

\* A service that is down and wanted up gets its ./run executed, whatever made
\* it go down, unless the user changes their mind or the log pipe is closed.
UpRuns ==
  Running /\ svd[0].want = "up" /\ svd[0].state = "down" ~>
    Executing("run") \/ svd[0].want # "up" \/ (haslog /\ ~logpipe)

\* After 'd' the service ends, even if it was paused, unless the user sends
\* another command: SIGTERM is followed by SIGCONT.
DownStops ==
  last = "d" /\ "TERM" \in svd[0].ctrl /\ svd[0].state = "run" ~> svd[0].state # "run" \/ last # "d"

\* After 'x' runsv ends, its log service included, unless the user sends
\* another command: ./finish is waited for, then the log pipe is closed and
\* the log service sees the end of its input.
ExitLeaves ==
  last = "x" /\ svd[0].want = "exit" ~> pc = "gone" \/ svd[0].want # "exit" \/ last # "x"
=============================================================================
