-------------------------- MODULE IdempotencyToken --------------------------
(***************************************************************************)
(* One Idempotency-Key of a client that may send its request several times *)
(* at once.  The record in Redis has a time to live in every state, so     *)
(* that it may be gone before the request that holds it is through.  A     *)
(* handler that reports a failure has changed nothing: one whose           *)
(* transaction commits while the reply of the database is lost (a retry    *)
(* with its token then runs again) is left out.                            *)
(***************************************************************************)
EXTENDS Integers, FiniteSets

CONSTANTS Sends,         \* requests with the token at a time
          CommitTries,   \* idempotencyCommitRetries
          MaxEffects     \* bound of the count of effects

ASSUME CommitAssumption == CommitTries \in Nat \ {0} /\ MaxEffects \in Nat \ {0}

VARIABLES
  tokenState, \* the record: missing, init, processing, done
  send,       \* where each request is
  effects,    \* what the handlers have done for this token
  replayed    \* a client was given the stored answer

tokenVars == <<tokenState, send, effects, replayed>>

IdleSend == [at |-> "idle", tries |-> 0]

TokenTypeOK ==
  /\ tokenState \in {"missing", "init", "processing", "done"}
  /\ send \in [Sends -> [at : {"idle", "handler", "commit", "release"}, tries : 0..CommitTries]]
  /\ effects \in 0..MaxEffects /\ replayed \in BOOLEAN

TokenInit ==
  /\ tokenState = "missing"
  /\ send = [s \in Sends |-> IdleSend]
  /\ effects = 0 /\ replayed = FALSE

-----------------------------------------------------------------------------
\* A token is random and handed out once, before anybody uses it.
IssueToken ==
  /\ tokenState = "missing" /\ effects = 0 /\ \A s \in Sends : send[s] = IdleSend
  /\ tokenState' = "init"
  /\ UNCHANGED <<send, effects, replayed>>

TokenExpires ==
  /\ tokenState # "missing" /\ tokenState' = "missing"
  /\ UNCHANGED <<send, effects, replayed>>

\* acquireScript, whose reply may be lost: the request is refused then.
Acquire(s) ==
  /\ send[s].at = "idle" /\ tokenState \in {"init", "done"}
  /\ \/ /\ tokenState = "init" /\ tokenState' = "processing"
        /\ \/ send' = [send EXCEPT ![s].at = "handler"]
           \/ UNCHANGED send
        /\ UNCHANGED replayed
     \/ /\ tokenState = "done" /\ replayed' = TRUE
        /\ UNCHANGED <<tokenState, send>>
  /\ UNCHANGED effects

\* Success; or an error, a business failure or a panic.
HandlerReturns(s) ==
  /\ send[s].at = "handler"
  /\ \/ /\ effects < MaxEffects /\ effects' = effects + 1
        /\ send' = [send EXCEPT ![s].at = "commit"]
     \/ send' = [send EXCEPT ![s].at = "release"] /\ UNCHANGED effects
  /\ UNCHANGED <<tokenState, replayed>>

\* HSET: a record that has expired comes back with the answer.
CommitResult(s) ==
  /\ send[s].at = "commit"
  /\ tokenState' = "done"
  /\ send' = [send EXCEPT ![s] = IdleSend]
  /\ UNCHANGED <<effects, replayed>>

\* Mutant: after the last try the token is released.
MutCommitResultFails(s) ==
  LET last == send[s].tries + 1 >= CommitTries IN
  /\ send[s].at = "commit"
  /\ tokenState' \in IF last THEN {"init"} ELSE {tokenState, "done"}
  /\ send' = [send EXCEPT ![s] = IF last THEN IdleSend
                                      ELSE [send[s] EXCEPT !.tries = send[s].tries + 1]]
  /\ UNCHANGED <<effects, replayed>>

\* After the last try the record is left to expire.
CommitResultFails(s) ==
  /\ send[s].at = "commit"
  /\ tokenState' \in {tokenState, "done"}
  /\ send' = [send EXCEPT ![s] = IF send[s].tries + 1 < CommitTries
                THEN [send[s] EXCEPT !.tries = send[s].tries + 1] ELSE IdleSend]
  /\ UNCHANGED <<effects, replayed>>

ReleaseToken(s) ==
  /\ send[s].at = "release"
  /\ tokenState' \in {"init", tokenState}
  /\ send' = [send EXCEPT ![s] = IdleSend]
  /\ UNCHANGED <<effects, replayed>>

\* The process dies with its requests.
SendDies(s) ==
  /\ send[s].at # "idle" /\ send' = [send EXCEPT ![s] = IdleSend]
  /\ UNCHANGED <<tokenState, effects, replayed>>

TokenNext ==
  \/ IssueToken \/ TokenExpires
  \/ \E s \in Sends : \/ Acquire(s) \/ HandlerReturns(s) \/ CommitResult(s)
                      \/ CommitResultFails(s) \/ ReleaseToken(s) \/ SendDies(s)

TokenSpec == TokenInit /\ [][TokenNext]_tokenVars

-----------------------------------------------------------------------------
(* Properties *)

\* Whatever expires, fails or is sent again, a token has one effect, one
\* request at a time works for it, and only what was done is replayed.
OncePerToken ==
  /\ effects <= 1
  /\ Cardinality({s \in Sends : send[s].at # "idle"}) <= 1
  /\ tokenState = "done" \/ replayed => effects = 1
=============================================================================
