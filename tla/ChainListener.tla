---------------------------- MODULE ChainListener ----------------------------
(***************************************************************************)
(* The listener of the escrow contract: it scans the blocks that are       *)
(* buried deep enough, in ranges, from the block after its cursor.  A log  *)
(* is claimed in Redis, written to the outbox as web3.payment.confirmed    *)
(* and unclaimed when that fails; the cursor never passes a block with a   *)
(* log that failed.  A first scan, without a cursor, starts where the      *)
(* buried blocks end.                                                      *)
(***************************************************************************)
EXTENDS Setbacks, Sequences, FiniteSets

CONSTANTS MaxHead,       \* bound: blocks of the chain
          Contents,      \* what a block may hold: sequences of "pay", "malformed"
          ConfirmDepth,
          MaxBlockRange

ASSUME DepthAssumption == ConfirmDepth \in Nat \ {0} /\ MaxBlockRange \in Nat \ {0}
ASSUME ContentsAssumption == MaxHead \in Nat /\ Contents \subseteq Seq({"pay", "malformed"})

VARIABLES
  chain,   \* the blocks, from the first on
  cursor,  \* web3:listener:last_block, 0 without
  claimed, \* web3:event:<tx>:<log>
  emitted, \* outbox events by log, at most two counted
  scan,    \* scanConfirmed
  origin   \* the first block read by the last scan without a cursor

listenerVars == <<chain, cursor, claimed, emitted, scan, origin, setbacks>>

Blocks   == 1..MaxHead
LogIndex == UNION {DOMAIN s : s \in Contents}
Logs     == Blocks \X LogIndex
NoScan   == [at |-> "idle"]
head     == Len(chain)

ListenerTypeOK ==
  /\ chain \in Seq(Contents) /\ head <= MaxHead
  /\ cursor \in 0..MaxHead /\ origin \in 0..MaxHead
  /\ claimed \subseteq Logs
  /\ emitted \in [Logs -> 0..2]
  /\ scan \in {NoScan} \cup
        [at : {"filter", "log", "insert", "release", "save"}, from : 1..(MaxHead + 1), to : 0..MaxHead,
         safe : 0..MaxHead, block : 0..MaxHead, index : Nat, failed : 0..MaxHead, own : BOOLEAN]

ListenerInit ==
  /\ chain = <<>> /\ cursor = 0 /\ origin = 0
  /\ claimed = {} /\ emitted = [l \in Logs |-> 0]
  /\ scan = NoScan

-----------------------------------------------------------------------------
(* The chain *)

OnChain == UNCHANGED <<cursor, claimed, emitted, scan, origin, setbacks>>

Mined ==
  /\ head < MaxHead
  /\ \E s \in Contents : chain' = Append(chain, s)
  /\ OnChain

\* Blocks that are not buried may still be replaced.
Reorganised ==
  /\ \E b \in Blocks, s \in Contents :
       /\ b > head - ConfirmDepth /\ b <= head /\ s # chain[b]
       /\ chain' = [chain EXCEPT ![b] = s]
  /\ OnChain

-----------------------------------------------------------------------------
(* scanConfirmed *)

Scanning == UNCHANGED chain /\ Smooth

TheSmaller(a, b) == IF a <= b THEN a ELSE b

\* The node asked may lag behind; a cursor ahead of it waits.  The process may
\* have been restarted in between: nothing of an earlier scan is kept.
ScanBegins ==
  /\ scan = NoScan
  /\ \E seen \in 0..head :
       LET safe == seen - ConfirmDepth
           from == IF cursor = 0 THEN safe ELSE cursor + 1
       IN
       /\ safe >= 1 /\ from <= safe
       /\ scan' = [at |-> "filter", from |-> from, to |-> TheSmaller(from + MaxBlockRange - 1, safe),
                   safe |-> safe, block |-> from, index |-> 1, failed |-> 0, own |-> FALSE]
  /\ Scanning /\ UNCHANGED <<cursor, claimed, emitted, origin>>

FilterLogs ==
  /\ scan.at = "filter"
  /\ scan' = [scan EXCEPT !.at = "log"]
  /\ origin' = IF cursor = 0 THEN scan.from ELSE origin
  /\ Scanning /\ UNCHANGED <<cursor, claimed, emitted>>

\* The node does not answer: the scan ends, another one will begin.
FilterLogsFails ==
  /\ scan.at = "filter" /\ scan' = NoScan
  /\ Scanning /\ UNCHANGED <<cursor, claimed, emitted, origin>>

\* The next log, block by block; those from a failed block on are left.
Position == <<scan.block, scan.index>>
AtLog    == scan.at = "log" /\ scan.block <= scan.to /\ (scan.failed = 0 \/ scan.block < scan.failed)
NextLog  == [scan EXCEPT !.at = "log", !.index = @ + 1, !.own = FALSE]

NextBlock ==
  /\ AtLog /\ scan.index > Len(chain[scan.block])
  /\ scan' = [scan EXCEPT !.block = @ + 1, !.index = 1]
  /\ Scanning /\ UNCHANGED <<cursor, claimed, emitted, origin>>

HereIs(kind) == AtLog /\ scan.index <= Len(chain[scan.block]) /\ chain[scan.block][scan.index] = kind

\* Scanning it again would not help.
SkipMalformed ==
  /\ HereIs("malformed") /\ scan' = NextLog
  /\ Scanning /\ UNCHANGED <<cursor, claimed, emitted, origin>>

\* SETNX; without Redis the event is written all the same.
tryClaim ==
  /\ HereIs("pay")
  /\ \/ /\ Position \notin claimed /\ claimed' = claimed \cup {Position} /\ Smooth
        /\ scan' = [scan EXCEPT !.at = "insert", !.own = TRUE]
     \/ Position \in claimed /\ scan' = NextLog /\ UNCHANGED claimed /\ Smooth
     \/ Setback /\ scan' = [scan EXCEPT !.at = "insert"] /\ UNCHANGED claimed
  /\ UNCHANGED chain /\ UNCHANGED <<cursor, emitted, origin>>

OutboxInsert ==
  /\ scan.at = "insert"
  /\ emitted' = [emitted EXCEPT ![Position] = TheSmaller(@ + 1, 2)]
  /\ scan' = NextLog
  /\ Scanning /\ UNCHANGED <<cursor, claimed, origin>>

\* An INSERT that reports an error, its reply lost, may have written the event.
OutboxFails ==
  /\ scan.at = "insert"
  /\ scan' = [scan EXCEPT !.at = "release"]
  /\ \/ UNCHANGED emitted /\ Smooth
     \/ emitted' = [emitted EXCEPT ![Position] = TheSmaller(@ + 1, 2)] /\ Setback
  /\ UNCHANGED chain /\ UNCHANGED <<cursor, claimed, origin>>

\* The claim is this scan's own: without Redis it took none and deletes none.
releaseClaim ==
  /\ scan.at = "release"
  /\ scan' = [scan EXCEPT !.at = "log", !.failed = scan.block, !.own = FALSE]
  /\ \/ scan.own /\ claimed' = claimed \ {Position} /\ Smooth
     \/ ~scan.own /\ UNCHANGED claimed /\ Smooth
     \/ scan.own /\ UNCHANGED claimed /\ Setback
  /\ UNCHANGED chain /\ UNCHANGED <<cursor, emitted, origin>>

\* Mutant: the cursor goes to the end of the range all the same.
MutSaveLastBlock ==
  /\ scan.at = "log" /\ ~AtLog
  /\ cursor' = scan.to /\ scan' = NoScan
  /\ Scanning /\ UNCHANGED <<claimed, emitted, origin>>

\* A range is over, or ends before the block that failed.  An unsaved cursor
\* is only logged.
saveLastBlock ==
  LET done == IF scan.failed = 0 THEN scan.to ELSE scan.failed - 1
      next == scan.to + 1
  IN
  /\ scan.at = "log" /\ ~AtLog
  /\ \/ done >= scan.from /\ cursor' = done /\ Smooth
     \/ done < scan.from /\ UNCHANGED cursor /\ Smooth
     \/ done >= scan.from /\ UNCHANGED cursor /\ Setback
  /\ scan' = IF scan.failed # 0 \/ next > scan.safe THEN NoScan
             ELSE [scan EXCEPT !.at = "filter", !.from = next, !.block = next, !.index = 1,
                               !.to = TheSmaller(next + MaxBlockRange - 1, scan.safe)]
  /\ UNCHANGED chain /\ UNCHANGED <<claimed, emitted, origin>>

ListenerDies ==
  /\ scan # NoScan /\ Setback
  /\ scan' = NoScan
  /\ UNCHANGED chain /\ UNCHANGED <<cursor, claimed, emitted, origin>>

ScanWorks ==
  \/ FilterLogs \/ NextBlock \/ SkipMalformed \/ tryClaim
  \/ OutboxInsert \/ releaseClaim \/ saveLastBlock

ListenerNext ==
  \/ Mined \/ Reorganised \/ ScanBegins \/ FilterLogsFails \/ OutboxFails
  \/ ScanWorks \/ ListenerDies

ListenerSpec == SetbacksInit /\ ListenerInit /\ [][ListenerNext]_listenerVars

-----------------------------------------------------------------------------
(* Properties *)

Payments(b) == {<<b, i>> : i \in {j \in DOMAIN chain[b] : chain[b][j] = "pay"}}

\* Only payments that no reorganisation takes back any more are announced.
EmittedIsBuried ==
  \A l \in Logs : emitted[l] > 0 =>
    l[1] <= head - ConfirmDepth /\ l \in Payments(l[1])

\* The cursor does not pass a payment that was not announced, since the last
\* start without one, and each is announced once, though the outbox refuses an
\* event and the node does not answer now and then: while the process lives,
\* Redis answers and no INSERT writes its event and still reports an error.
CursorPassesEmitted ==
  setbacks = 0 =>
    /\ \A b \in origin..cursor : b > 0 => \A l \in Payments(b) : emitted[l] = 1
    /\ \A l \in Logs : emitted[l] <= 1

\* Payments are announced when they are final, once, and none is passed over.
AnnouncedOnce == EmittedIsBuried /\ CursorPassesEmitted

\* "A log that fails is scanned again by the next round": from the first block
\* ever scanned on, none is left behind.
FailedIsScannedAgain ==
  [][origin # 0 /\ origin' # origin => \A b \in origin..(origin' - 1) :
        \A l \in Payments(b) : emitted[l] > 0]_listenerVars

\* While the process lives, Redis answers and no reply of the outbox is lost, a
\* payment that is buried behind the cursor is announced, though the outbox
\* refuses it now and then.
PaymentUnannounced ==
  /\ cursor # 0 /\ setbacks = 0
  /\ \E b \in (cursor + 1)..(head - ConfirmDepth) : \E l \in Payments(b) : emitted[l] = 0

PaymentsEmitted == PaymentUnannounced ~> ~PaymentUnannounced
=============================================================================
