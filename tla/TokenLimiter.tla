---------------------------- MODULE TokenLimiter ----------------------------
(***************************************************************************)
(* internal/limiter/connection_limiter.go: the token bucket that bounds    *)
(* the number of concurrent connections of a gateway node and that is      *)
(* widened step by step after a start (grey release).                      *)
(*                                                                         *)
(* The channel `tokens` carries no data, so it is the number of tokens in  *)
(* it; its capacity is MaxCapacity.  The ramp-up goroutine pushes the      *)
(* tokens of one tick one by one, with blocking sends, and stores the new  *)
(* capacity afterwards: every push and the store are steps of their own.   *)
(***************************************************************************)
EXTENDS Integers, FiniteSets

CONSTANTS Clients,          \* callers of Acquire and Release
          InitialCapacity,  \* TokenLimiterConfig.InitialCapacity
          MaxCapacity,      \* TokenLimiterConfig.MaxCapacity
          IncreaseStep      \* TokenLimiterConfig.IncreaseStep

\* What NewTokenLimiter validates before it builds a limiter.
ASSUME ConfigAssumption ==
    /\ MaxCapacity \in Nat \ {0}
    /\ InitialCapacity \in 0..MaxCapacity
    /\ IncreaseStep \in Nat \ {0}

ASSUME ClientsAssumption == IsFiniteSet(Clients)

VARIABLES
    tokens,           \* number of tokens in the channel
    currentCapacity,  \* the atomic the ramp-up publishes
    ramp,             \* where the StartRampUp goroutine is
    newCapacity,      \* its local newCapacity
    toAdd,            \* addedTokens - i: pushes left in this tick
    held,             \* clients between a successful Acquire and their Release
    cancelled         \* which contexts are cancelled: the limiter's own
                      \* ("own", by Close), the one passed to StartRampUp ("ext")

rampVars == <<currentCapacity, ramp, newCapacity, toAdd>>
limVars  == <<tokens, currentCapacity, ramp, newCapacity, toAdd, held, cancelled>>

LimInit ==
    /\ tokens = InitialCapacity
    /\ currentCapacity = InitialCapacity
    /\ ramp = "select"
    /\ newCapacity = InitialCapacity
    /\ toAdd = 0
    /\ held = {}
    /\ cancelled = {}

-----------------------------------------------------------------------------
(* Acquire: a non-blocking receive, true when it got a token.              *)

\* Mutant: the token is looked at but not taken.
Acquire_NotTaken(c) ==
    /\ c \notin held
    /\ tokens > 0
    /\ held' = held \union {c}
    /\ UNCHANGED <<tokens, rampVars, cancelled>>

Acquire(c) ==
    /\ c \notin held
    /\ tokens > 0
    /\ tokens' = tokens - 1
    /\ held' = held \union {c}
    /\ UNCHANGED <<rampVars, cancelled>>

\* The default branch of Acquire: the bucket is empty, the answer is false.
AcquireFails == tokens = 0 /\ UNCHANGED limVars

\* Release: a non-blocking send; with a full channel the token is dropped.
Release(c) ==
    /\ c \in held
    /\ tokens' = IF tokens < MaxCapacity THEN tokens + 1 ELSE tokens
    /\ held' = held \ {c}
    /\ UNCHANGED <<rampVars, cancelled>>

\* Close: cancels the limiter's own context, idempotent.
Close ==
    /\ cancelled' = cancelled \union {"own"}
    /\ UNCHANGED <<tokens, rampVars, held>>

\* The owner of the ctx given to StartRampUp cancels it.
CancelExternal ==
    /\ cancelled' = cancelled \union {"ext"}
    /\ UNCHANGED <<tokens, rampVars, held>>

-----------------------------------------------------------------------------
(* The StartRampUp goroutine.  Go's select picks any ready case, so a tick *)
(* may win against a cancelled context.                                    *)
RampStopped ==
    /\ ramp = "select"
    /\ cancelled # {}
    /\ ramp' = "done"
    /\ UNCHANGED <<tokens, currentCapacity, newCapacity, toAdd, held, cancelled>>

RampComplete == currentCapacity >= MaxCapacity

RampFull ==
    /\ ramp = "select"
    /\ RampComplete
    /\ ramp' = "done"
    /\ UNCHANGED <<tokens, currentCapacity, newCapacity, toAdd, held, cancelled>>

Clamp(n) == IF n > MaxCapacity THEN MaxCapacity ELSE n

\* Mutant: a whole step of tokens is pushed even when the step was clamped.
AddedTokens_WholeStep(n) == IncreaseStep
AddedTokens(n) == n - currentCapacity

RampTick ==
    /\ ramp = "select"
    /\ ~RampComplete
    /\ newCapacity' = Clamp(currentCapacity + IncreaseStep)
    /\ toAdd' = AddedTokens(newCapacity')
    /\ ramp' = "add"
    /\ UNCHANGED <<tokens, currentCapacity, held, cancelled>>

\* t.tokens <- struct{}{} blocks while the channel is full.
RampPush ==
    /\ ramp = "add"
    /\ toAdd > 0
    /\ tokens < MaxCapacity
    /\ tokens' = tokens + 1
    /\ toAdd' = toAdd - 1
    /\ UNCHANGED <<currentCapacity, ramp, newCapacity, held, cancelled>>

RampStore ==
    /\ ramp = "add"
    /\ toAdd = 0
    /\ currentCapacity' = newCapacity
    /\ ramp' = "select"
    /\ UNCHANGED <<tokens, newCapacity, toAdd, held, cancelled>>

RampUp == RampStopped \/ RampFull \/ RampTick \/ RampPush \/ RampStore

LimNext ==
    \/ \E c \in Clients : Acquire(c) \/ Release(c)
    \/ RampUp
    \/ Close
    \/ CancelExternal

\* The limiter with callers that release only what they hold.  Whether the
\* server is such a caller is checked where the two meet (WsServer).
LimSpec == LimInit /\ [][LimNext]_limVars

-----------------------------------------------------------------------------
LimTypeOK ==
    /\ tokens \in 0..MaxCapacity
    /\ currentCapacity \in 0..MaxCapacity
    /\ ramp \in {"select", "add", "done"}
    /\ newCapacity \in 0..MaxCapacity
    /\ toAdd \in 0..MaxCapacity
    /\ held \in SUBSET Clients
    /\ cancelled \in SUBSET {"own", "ext"}

\* Tokens that exist: the published capacity and, during a tick, the ones
\* of this tick that are already in circulation.
Issued == IF ramp = "add" THEN newCapacity - toAdd ELSE currentCapacity

\* No token is lost or invented, whatever the ramp-up, the acceptor and the
\* connection handlers interleave: in the channel plus in use = issued.
TokensConserved == tokens + Cardinality(held) = Issued

\* Whoever has a token to put finds room in the channel: the branch of Release
\* that its comment calls theoretically impossible never runs, and the sends of
\* StartRampUp never block, so it gets back to its select and its contexts.
RoomForTokens ==
    (held # {} \/ (ramp = "add" /\ toAdd > 0)) => tokens < MaxCapacity

\* The published capacity never shrinks, and never grows by more than a step.
CapacityMonotone ==
    [][/\ currentCapacity' >= currentCapacity
       /\ currentCapacity' <= currentCapacity + IncreaseStep]_currentCapacity

\* The limiter implements the pool the gateway relies on.
Pool == INSTANCE ConnectionPool WITH holders <- held, capacity <- Issued
PoolSpec == Pool!Spec
=============================================================================
