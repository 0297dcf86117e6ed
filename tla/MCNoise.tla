------------------------------- MODULE MCNoise -------------------------------
(***************************************************************************)
(* Instances for TLC of three mechanisms of boringtun/src/noise that share *)
(* no state: the counters of a session, the timers of a tunnel, and the    *)
(* limit on handshake messages.  A behaviour is one of one of them, part   *)
(* says which; the variables of the others stay as they are.               *)
(***************************************************************************)
EXTENDS ReplayWindow, SessionTimers, RateLimiter

MCThreads == {"worker1", "worker2"}

VARIABLE part

noiseVars == <<part, vars, timersVars, limiterVars>>

NoiseInit ==
  /\ part \in {"counters", "timers", "limiter"}
  /\ Init /\ TimersInit /\ LimiterInit

Counters == /\ part = "counters" /\ Next
            /\ UNCHANGED <<part, timersVars, limiterVars>>
Timing == /\ part = "timers" /\ TimersNext
          /\ UNCHANGED <<part, vars, limiterVars>>
Limiting == /\ part = "limiter" /\ LimiterNext
            /\ UNCHANGED <<part, vars, timersVars>>

NoiseNext == Counters \/ Timing \/ Limiting

(* The fairness is the limiter's, whose actions are disabled elsewhere:    *)
(* nobody is trying and no message is on its way.                          *)
NoiseSpec == NoiseInit /\ [][NoiseNext]_noiseVars /\ Fairness

==============================================================================
