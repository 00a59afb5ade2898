------------------------------ MODULE GroupBuy ------------------------------
(***************************************************************************)
(* One group of buyers: who joins pays into groupbuy_escrow and reserves a *)
(* piece; a full group succeeds, a late one is dissolved, and operators    *)
(* close groups.  Rows and money change in one transaction, the pieces in  *)
(* Redis before or after it.                                               *)
(***************************************************************************)
EXTENDS StockBuckets, FiniteSets, Functions

CONSTANTS Fans,        \* users
          TargetCount,
          Clerks,      \* requests and cron jobs at a time
          Shelf        \* product.num at the start

ASSUME GroupAssumption == IsFiniteSet(Fans) /\ IsFiniteSet(Clerks) /\ TargetCount \in Nat \ {0, 1} /\ Shelf \in Nat

VARIABLES
  group,      \* the row: status, current_count; late: expire_at has passed
  membership, \* groupbuy_member: none, joined, succeed, refunded
  groupOrder, \* the member's order
  place,      \* the account that has the member's money
  bucket,     \* pieces in Redis: available, reserved
  shelf,      \* product.num
  unsettled,  \* how many of the orders have stock_commit_pending
  clerk,      \* requests and jobs
  strayed     \* history: how often a call that reported a failure had moved a piece,
              \* or had written the order whose piece is then given back

groupVars == <<group, membership, groupOrder, place, bucket, shelf, unsettled, clerk, strayed, setbacks>>

IdleClerk == [at |-> "idle", fan |-> {}, cron |-> FALSE, to |-> "none", owes |-> 0, tries |-> 0]

GroupTypeOK ==
  /\ group \in [status : {"none", "open", "success", "expired", "closed"},
                count : 0..TargetCount, late : BOOLEAN]
  /\ membership \in [Fans -> {"none", "joined", "succeed", "refunded"}]
  /\ groupOrder \in [Fans -> {"none", "WaitGroup", "WaitShip", "Closed"}]
  /\ place \in [Fans -> {"wallet", "groupbuy_escrow", "merchant_escrow"}]
  /\ bucket \in [available : Int, reserved : Nat] /\ shelf \in 0..Shelf
  /\ unsettled \in Nat /\ strayed \in Nat
  /\ clerk \in [Clerks ->
       [at : {"idle", "checked", "reserved", "timed", "release", "completes", "dissolves", "stock"},
        fan : {S \in SUBSET Fans : Cardinality(S) <= 1}, cron : BOOLEAN,
        to : {"none", "success", "expired", "closed"}, owes : 0..TargetCount,
        tries : 0..(StockCommitRetries - 1)]]

GroupInit ==
  /\ group = [status |-> "none", count |-> 0, late |-> FALSE]
  /\ membership = [f \in Fans |-> "none"] /\ groupOrder = [f \in Fans |-> "none"]
  /\ place = [f \in Fans |-> "wallet"]
  /\ bucket = [available |-> Shelf, reserved |-> 0] /\ shelf = Shelf
  /\ clerk = [c \in Clerks |-> IdleClerk] /\ unsettled = 0 /\ strayed = 0

Rows == <<group, membership, groupOrder, place>>

ClerkAt(c, at) ==
  clerk' = [clerk EXCEPT ![c] = IF at = "idle" THEN IdleClerk ELSE [@ EXCEPT !.at = at]]
Takes(c, job)  == clerk[c].at = "idle" /\ clerk' = [clerk EXCEPT ![c] = job]

Reserves  == bucket' = PieceReserved(bucket)
GivesBack == bucket' = PieceReleased(bucket)
NoneStrays   == UNCHANGED <<unsettled, strayed>>

Members == {f \in Fans : membership[f] # "none"}

\* The three legs of the money; refundFromEscrow passes over who has been
\* repaid, and asks of the others only that they are members.
collectToEscrow(f)         == place' = [place EXCEPT ![f] = "groupbuy_escrow"]
clearToMerchantEscrow(fs)  == place' = [f \in Fans |-> IF f \in fs THEN "merchant_escrow" ELSE place[f]]
refundFromEscrow(fs)       == place' = [f \in Fans |-> IF f \in fs THEN "wallet" ELSE place[f]]

-----------------------------------------------------------------------------
(* CreateGroup and JoinGroup *)

EntersGroup(c, f) ==
  /\ Takes(c, [IdleClerk EXCEPT !.at = "checked", !.fan = {f}])
  /\ NoneStrays /\ UNCHANGED <<Rows, bucket, shelf, setbacks>>

\* One group is modelled: its leader is the only one who may create it.
CreateChecks(c, f) ==
  group.status = "none" /\ (\A d \in Clerks : clerk[d] = IdleClerk) /\ EntersGroup(c, f)

JoinChecks(c, f) ==
  /\ group.status = "open" /\ ~group.late /\ group.count < TargetCount /\ membership[f] = "none"
  /\ EntersGroup(c, f)

ReserveOne(c) ==
  /\ clerk[c].at = "checked"
  /\ \/ bucket.available > 0 /\ Smooth /\ Reserves /\ ClerkAt(c, "reserved")
     \/ bucket.available <= 0 /\ Smooth /\ UNCHANGED bucket /\ ClerkAt(c, "idle")
     \/ bucket.available > 0 /\ Setback /\ (Reserves \/ UNCHANGED bucket) /\ ClerkAt(c, "idle")
  /\ NoneStrays /\ UNCHANGED <<Rows, shelf>>

\* JoinGroupAtomic takes the time before its UPDATE waits for the row.
TakesTime(c) ==
  /\ clerk[c].at = "reserved" /\ group.status # "none"
  /\ ClerkAt(c, IF group.late THEN "release" ELSE "timed")
  /\ NoneStrays /\ UNCHANGED <<Rows, bucket, shelf, setbacks>>

\* Mutant: a group that has been dissolved meanwhile takes members.
MutJoinable(f) == group.count < TargetCount /\ membership[f] = "none"

\* What the UPDATE of JoinGroupAtomic and the unique index compare.
Joinable(f) == group.status = "open" /\ group.count < TargetCount /\ membership[f] = "none"

\* What both transactions write.
BooksMember(f) ==
  /\ membership' = [membership EXCEPT ![f] = "joined"]
  /\ groupOrder' = [groupOrder EXCEPT ![f] = "WaitGroup"]
  /\ collectToEscrow(f)

RollsBack(c) == ClerkAt(c, "release") /\ UNCHANGED <<Rows, strayed>>

\* The commit goes through and its reply is lost: the request gives the piece
\* back like after a rollback.
CommitsUnheard(c) == Setback /\ ClerkAt(c, "release") /\ strayed' = strayed + 1

Creates(f) == group' = [group EXCEPT !.status = "open", !.count = 1] /\ BooksMember(f)
Joins(f)   == group' = [group EXCEPT !.count = @ + 1] /\ BooksMember(f)

CreateGroupTx(c, f) ==
  /\ clerk[c].at = "reserved" /\ clerk[c].fan = {f} /\ group.status = "none"
  /\ \/ Creates(f) /\ Smooth /\ ClerkAt(c, "idle") /\ UNCHANGED strayed
     \/ Creates(f) /\ CommitsUnheard(c)
     \/ Setback /\ RollsBack(c)
  /\ UNCHANGED <<bucket, shelf, unsettled>>

\* It rolls back when the group is full or no longer open, when the fan has
\* joined already, and when anything fails.
JoinTx(c, f) ==
  /\ clerk[c].at = "timed" /\ clerk[c].fan = {f}
  /\ \/ /\ Joinable(f) /\ Joins(f) /\ Smooth /\ UNCHANGED strayed
        /\ ClerkAt(c, IF group.count + 1 >= TargetCount THEN "completes" ELSE "idle")
     \/ Joinable(f) /\ Joins(f) /\ CommitsUnheard(c)
     \/ ~Joinable(f) /\ Smooth /\ RollsBack(c)
     \/ Setback /\ RollsBack(c)
  /\ UNCHANGED <<bucket, shelf, unsettled>>

ReleaseOne(c) ==
  /\ clerk[c].at = "release" /\ ClerkAt(c, "idle")
  /\ \/ Smooth /\ GivesBack
     \/ Setback /\ (GivesBack \/ UNCHANGED bucket)
  /\ NoneStrays /\ UNCHANGED <<Rows, shelf>>

-----------------------------------------------------------------------------
(* MarkGroupSuccess and dissolveGroup *)

\* MarkGroupSuccessIfFull, DeductStock and clearToMerchantEscrow for each
\* member.  The cron dissolves a late group that the shelf cannot serve.
MarkGroupSuccess(c) ==
  LET full == group.status = "open" /\ group.count >= TargetCount
      short == shelf < Cardinality(Members)
  IN
  /\ clerk[c].at = "completes"
  /\ \/ /\ full /\ ~short /\ Smooth
        /\ group' = [group EXCEPT !.status = "success"]
        /\ membership' = [f \in Fans |-> IF f \in Members THEN "succeed" ELSE "none"]
        /\ groupOrder' = [f \in Fans |-> IF f \in Members THEN "WaitShip" ELSE "none"]
        /\ clearToMerchantEscrow(Members)
        /\ shelf' = shelf - Cardinality(Members)
        /\ clerk' = [clerk EXCEPT ![c] = [IdleClerk EXCEPT !.at = "stock", !.to = "success",
                                                           !.owes = Cardinality(Members)]]
     \/ /\ full /\ short /\ Smooth /\ UNCHANGED <<Rows, shelf>>
        /\ clerk' = [clerk EXCEPT ![c] = IF @.cron /\ group.late
                       THEN [IdleClerk EXCEPT !.at = "dissolves", !.to = "expired"] ELSE IdleClerk]
     \/ ~full /\ Smooth /\ ClerkAt(c, "idle") /\ UNCHANGED <<Rows, shelf>>
     \/ Setback /\ ClerkAt(c, "idle") /\ UNCHANGED <<Rows, shelf>>
  /\ NoneStrays /\ UNCHANGED bucket

\* MarkGroupDissolved; every order that still waits is closed and repaid.
DissolveGroup(c) ==
  LET open == group.status = "open"
      closes == {f \in Fans : groupOrder[f] = "WaitGroup"}
  IN
  /\ clerk[c].at = "dissolves"
  /\ \/ /\ open /\ Smooth
        /\ group' = [group EXCEPT !.status = clerk[c].to]
        /\ membership' = [f \in Fans |-> IF f \in Members THEN "refunded" ELSE "none"]
        /\ groupOrder' = [f \in Fans |-> IF f \in closes THEN "Closed" ELSE groupOrder[f]]
        /\ refundFromEscrow(closes)
        /\ clerk' = [clerk EXCEPT ![c] = [@ EXCEPT !.at = "stock", !.owes = Cardinality(closes)]]
     \/ ~open /\ Smooth /\ ClerkAt(c, "idle") /\ UNCHANGED Rows
     \/ Setback /\ ClerkAt(c, "idle") /\ UNCHANGED Rows
  /\ NoneStrays /\ UNCHANGED <<bucket, shelf>>

\* The clerk turns to the next piece.
NextPiece(c) ==
  clerk' = [clerk EXCEPT ![c] = IF @.owes = 1 THEN IdleClerk
                                ELSE [@ EXCEPT !.owes = clerk[c].owes - 1, !.tries = 0]]

\* CommitStockReservation and ReleaseReservation, piece by piece; a release is
\* tried once, and a piece that is not in reserved is given up.
MoveStock(c) ==
  /\ clerk[c].at = "stock" /\ NextPiece(c)
  /\ \/ clerk[c].to = "success" /\ Smooth /\ bucket' = PieceCommitted(bucket)
     \/ clerk[c].to # "success" /\ Smooth /\ GivesBack
     \/ clerk[c].to # "success" /\ Setback /\ (GivesBack \/ UNCHANGED bucket)
  /\ NoneStrays /\ UNCHANGED <<Rows, shelf>>

\* The script may have run; after the last try the order is flagged, and that
\* write may fail too.
CommitAttemptFails(c) ==
  /\ clerk[c].at = "stock" /\ clerk[c].to = "success" /\ TryFails(clerk[c].tries)
  /\ bucket' \in {bucket, PieceCommitted(bucket)}
  /\ strayed' = strayed + (bucket.reserved - bucket'.reserved)
  /\ IF clerk[c].tries + 1 < StockCommitRetries
       THEN /\ clerk' = [clerk EXCEPT ![c] = [@ EXCEPT !.tries = clerk[c].tries + 1]]
            /\ UNCHANGED unsettled
       ELSE NextPiece(c) /\ unsettled' \in {unsettled, unsettled + 1}
  /\ UNCHANGED <<Rows, shelf>>

\* One flag, from clearing it to setting it again when the script fails.
retryPendingCommits ==
  /\ unsettled > 0
  /\ \/ /\ Smooth /\ bucket' = PieceCommitted(bucket) /\ unsettled' = unsettled - 1
        /\ UNCHANGED strayed
     \/ /\ Setback /\ bucket' \in {bucket, PieceCommitted(bucket)}
        /\ \/ unsettled' = unsettled /\ strayed' = strayed + (bucket.reserved - bucket'.reserved)
           \/ unsettled' = unsettled - 1 /\ UNCHANGED strayed
  /\ UNCHANGED <<Rows, shelf, clerk>>

\* RunCompleteFullGroups, the expiry sweep, an operator.
ListFullOpenGroups(c) ==
  /\ group.status = "open" /\ group.count >= TargetCount
  /\ Takes(c, [IdleClerk EXCEPT !.at = "completes", !.cron = TRUE])
  /\ NoneStrays /\ UNCHANGED <<Rows, bucket, shelf, setbacks>>

ExpireOpenGroupsBefore(c) ==
  /\ group.status = "open" /\ group.late /\ group.count < TargetCount
  /\ Takes(c, [IdleClerk EXCEPT !.at = "dissolves", !.to = "expired"])
  /\ NoneStrays /\ UNCHANGED <<Rows, bucket, shelf, setbacks>>

CloseGroup(c) ==
  /\ group.status = "open"
  /\ Takes(c, [IdleClerk EXCEPT !.at = "dissolves", !.to = "closed"])
  /\ NoneStrays /\ UNCHANGED <<Rows, bucket, shelf, setbacks>>

\* A groupbuy.expired event, whenever and however often it comes.
SettleExpiredRefund ==
  /\ group.status \in {"expired", "closed"}
  /\ refundFromEscrow(Members)
  /\ NoneStrays /\ UNCHANGED <<group, membership, groupOrder, bucket, shelf, clerk, setbacks>>

-----------------------------------------------------------------------------
ClerkDies(c) ==
  /\ clerk[c].at # "idle" /\ Setback /\ ClerkAt(c, "idle")
  /\ NoneStrays /\ UNCHANGED <<Rows, bucket, shelf>>

ExpirePasses ==
  /\ group.status = "open" /\ ~group.late /\ group' = [group EXCEPT !.late = TRUE]
  /\ NoneStrays /\ UNCHANGED <<membership, groupOrder, place, bucket, shelf, clerk, setbacks>>

\* The merchant corrects num: ProductUpdate moves available by the same amount.
MerchantLowersNum ==
  /\ Setback /\ shelf > 0 /\ shelf' = shelf - 1
  /\ bucket' = [bucket EXCEPT !.available = @ - 1]
  /\ NoneStrays /\ UNCHANGED <<Rows, clerk>>

ClerkWorks(c) ==
  \/ ReserveOne(c) \/ TakesTime(c) \/ ReleaseOne(c)
  \/ (\E f \in Fans : CreateGroupTx(c, f) \/ JoinTx(c, f))
  \/ MarkGroupSuccess(c) \/ DissolveGroup(c) \/ MoveStock(c) \/ CommitAttemptFails(c)

GroupNext ==
  \/ \E c \in Clerks : \/ (\E f \in Fans : CreateChecks(c, f) \/ JoinChecks(c, f)) \/ ClerkWorks(c) \/ ClerkDies(c)
                       \/ ListFullOpenGroups(c) \/ ExpireOpenGroupsBefore(c) \/ CloseGroup(c)
  \/ retryPendingCommits \/ SettleExpiredRefund \/ ExpirePasses \/ MerchantLowersNum

GroupSpec == GroupInit /\ SetbacksInit /\ [][GroupNext]_groupVars

-----------------------------------------------------------------------------
(* Properties *)

\* Whoever joins while the group fills up, is completed or dissolved: the money
\* and the order of every member are where the group's status says, and nobody
\* else has paid.
MoneyWithGroup ==
  /\ group.count = Cardinality(Members) /\ Cardinality(Members) <= TargetCount
  /\ \A f \in Fans : <<groupOrder[f], place[f]>> =
       IF f \notin Members THEN <<"none", "wallet">>
       ELSE IF group.status = "open" THEN <<"WaitGroup", "groupbuy_escrow">>
       ELSE IF group.status = "success" THEN <<"WaitShip", "merchant_escrow">>
       ELSE <<"Closed", "wallet">>

StillOwed(kinds) ==
  SumFunction([c \in Clerks |-> IF clerk[c].to \in kinds /\ clerk[c].at = "stock" THEN clerk[c].owes ELSE 0])

InFlight == {c \in Clerks : clerk[c].at \in {"reserved", "timed", "release"}}

\* Orders that wait for their group, requests under way, sales that reserved
\* still has to be told of.
PiecesDue ==
  Cardinality({f \in Fans : groupOrder[f] = "WaitGroup"}) + Cardinality(InFlight)
    + StillOwed({"success", "expired", "closed"}) + unsettled

\* Whoever waits for the group has a piece in reserved, but for one piece for
\* each call that reported a failure of something it had done: no other error,
\* death, race or retry takes a piece that is due to somebody.  When nothing
\* fails, reserved is what is due, and the two buckets are num and what has been
\* sold and not yet committed.
PiecesWithGroup ==
  /\ bucket.reserved + strayed >= PiecesDue
  /\ setbacks = 0 => /\ bucket.reserved = PiecesDue
                     /\ bucket.available + bucket.reserved = shelf + StillOwed({"success"})

\* Money and pieces go with the group.
GroupBooks == MoneyWithGroup /\ PiecesWithGroup

\* Nobody's money stays in groupbuy_escrow: a group is completed, dissolved or
\* closed, also one that is full and cannot be served.
GroupOpen == group.status = "open"
GroupEnds == GroupOpen ~> ~GroupOpen
=============================================================================
