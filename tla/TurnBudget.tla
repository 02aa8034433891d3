----------------------------- MODULE TurnBudget -----------------------------
(***************************************************************************)
(* The TURN cell (worker/src/cells/turn.js): credentials issued under a    *)
(* budget of egress that is read every so often, listed for revocation,    *)
(* and revoked when a reading reaches the budget.                          *)
(*                                                                         *)
(* A request holds the cell from its check to its answer.  The alarm does  *)
(* not: while it waits for a reading or a revocation, a request can come   *)
(* in between, and it goes on when that request is answered.  So a reading *)
(* an alarm asked for early can be stored after a later one.               *)
(*                                                                         *)
(* Abstractions.  A reading is over the budget or under it, and new, due   *)
(* to be read again, or too old; a credential passes its recorded expiry   *)
(* at any time.  One month.  The three hourly caps are one.  The settings  *)
(* stay set.                                                               *)
(***************************************************************************)
EXTENDS Naturals, FiniteSets

CONSTANTS
    Creds,     \* the credentials the service can mint
    HourlyCap, \* TURN_CAPS.total
    Hours,     \* hours of the requests, which come in any order around a turn
    MaxFaults  \* bound on failed calls and stops of the cell

ASSUME TurnAssumption == HourlyCap \in Nat \ {0} /\ Hours \subseteq Nat /\ MaxFaults \in Nat

VARIABLES
    service,  \* Cloudflare: egress over the budget, credentials it honours
    reading,  \* the stored reading
    window,   \* the hour's counter
    listed,   \* the issued credentials the cell has stored
    armed,    \* an alarm is set
    run,      \* the request and the alarm at work
    expired,  \* credentials past their recorded expiry
    held,     \* credentials answered to a participant
    faults

turnVars == <<service, reading, window, listed, armed, run, expired, held, faults>>

NoCred == "none"
NoRun == [stage |-> "idle", saw |-> FALSE, asked |-> 0, todo |-> {}, done |-> {}, cred |-> NoCred]

TurnInit ==
    /\ service = [over |-> FALSE, minted |-> {}, live |-> {}]
    /\ reading = [age |-> "none", over |-> FALSE]
    /\ window = [hour |-> 0, total |-> 0]
    /\ listed = {} /\ armed = FALSE
    /\ run = [r \in {"issue", "alarm"} |-> NoRun]
    /\ expired = {} /\ held = {} /\ faults = MaxFaults

-----------------------------------------------------------------------------
(* The world. *)

\* What the analytics report only grows within a month.
BudgetReached ==
    /\ ~service.over /\ service' = [service EXCEPT !.over = TRUE]
    /\ UNCHANGED <<reading, window, listed, armed, run, expired, held, faults>>

\* READ_EVERY_MS, then FRESH_FOR_MS, have passed since the reading.
ReadingAges ==
    /\ \/ reading.age = "new" /\ reading' = [reading EXCEPT !.age = "due"]
       \/ reading.age = "due" /\ reading' = [reading EXCEPT !.age = "old"]
    /\ UNCHANGED <<service, window, listed, armed, run, expired, held, faults>>

Expires(c) ==
    /\ c \in service.live \ expired /\ expired' = expired \union {c}
    /\ UNCHANGED <<service, reading, window, listed, armed, run, held, faults>>

-----------------------------------------------------------------------------
(* What the request and the alarm share. *)

MayRun(r) == r = "issue" \/ run["issue"].stage = "idle"

\* The window counts for the hour of the request, which may be a late one.
Counted(asked) == IF window.hour = asked THEN window.total ELSE 0

\* The alarm ends: it is set again while a credential is listed.
RearmUnlessOver(left, over) == armed' = (armed \/ (left # {} /\ ~over))

Rearmed(left, over) == armed' = (armed \/ left # {})

\* What follows a reading: "over", "under" or "none".
GoesOn(r, current) ==
    /\ IF current = "over" THEN
            /\ run' = [run EXCEPT ![r].stage = "revoking", ![r].todo = listed \ expired,
                           ![r].done = listed \intersect expired]
            /\ UNCHANGED <<listed, armed>>
       ELSE IF r = "issue" THEN
            /\ run' = [run EXCEPT ![r] = IF current = "under" /\ Counted(@.asked) < HourlyCap
                                         THEN [@ EXCEPT !.stage = "minting"] ELSE NoRun]
            /\ UNCHANGED <<listed, armed>>
       ELSE /\ listed' = listed \ (run[r].todo \intersect expired)
            /\ run' = [run EXCEPT ![r] = NoRun]
            /\ Rearmed(listed', FALSE)
    /\ UNCHANGED <<service, window, expired, held>>

State(record) == IF record.age \in {"none", "old"} THEN "none"
                 ELSE IF record.over THEN "over" ELSE "under"

\* currentReading: a new one serves, any other is asked for again.  The call
\* answers what the service held at some instant, or fails.
UsesReading(r) ==
    /\ run[r].stage = "started" /\ MayRun(r)
    /\ IF reading.age = "new"
       THEN GoesOn(r, State(reading)) /\ UNCHANGED <<reading, faults>>
       ELSE /\ run' = [run EXCEPT ![r].stage = "reading", ![r].saw = service.over]
            /\ UNCHANGED <<service, reading, window, listed, armed, expired, held, faults>>

ReadingAnswered(r) ==
    /\ run[r].stage = "reading" /\ MayRun(r)
    /\ \/ \E over \in {run[r].saw, service.over} :
            /\ reading' = [age |-> "new", over |-> over]
            /\ GoesOn(r, State(reading')) /\ UNCHANGED faults
       \/ /\ faults > 0 /\ faults' = faults - 1
          /\ GoesOn(r, State(reading)) /\ UNCHANGED reading

\* revokeAll: every unexpired credential, expired ones are done already; one
\* whose revocation failed stays listed.
RevokedAnyway(r, c) == [run EXCEPT ![r].todo = @ \ {c}, ![r].done = @ \union {c}]

NotRevoked(r, c) == [run EXCEPT ![r].todo = @ \ {c}]

Revokes(r, c) ==
    /\ run[r].stage = "revoking" /\ c \in run[r].todo /\ MayRun(r)
    /\ \/ /\ service' = [service EXCEPT !.live = @ \ {c}]
          /\ run' = [run EXCEPT ![r].todo = @ \ {c}, ![r].done = @ \union {c}]
          /\ UNCHANGED faults
       \/ /\ faults > 0 /\ faults' = faults - 1
          /\ service' \in {service, [service EXCEPT !.live = @ \ {c}]}
          /\ run' = NotRevoked(r, c)
    /\ UNCHANGED <<reading, window, listed, armed, expired, held>>

RevokeEnds(r) ==
    /\ run[r].stage = "revoking" /\ run[r].todo = {} /\ MayRun(r)
    /\ listed' = listed \ run[r].done
    /\ run' = [run EXCEPT ![r] = NoRun]
    /\ IF r = "alarm" THEN Rearmed(listed', TRUE) ELSE UNCHANGED armed
    /\ UNCHANGED <<service, reading, window, expired, held, faults>>

-----------------------------------------------------------------------------
(* issue. *)

IssueStarts == \E asked \in Hours :
    /\ run["issue"].stage = "idle"
    /\ run' = [run EXCEPT !["issue"] = [NoRun EXCEPT !.stage = "started", !.asked = asked]]
    /\ UNCHANGED <<service, reading, window, listed, armed, expired, held, faults>>

\* The service mints, and the answer arrives or does not.
Mints == \E c \in Creds \ service.minted :
    /\ run["issue"].stage = "minting"
    /\ service' = [service EXCEPT !.minted = @ \union {c}, !.live = @ \union {c}]
    /\ \/ run' = [run EXCEPT !["issue"].stage = "storing", !["issue"].cred = c] /\ UNCHANGED faults
       \/ faults > 0 /\ faults' = faults - 1 /\ run' = [run EXCEPT !["issue"] = NoRun]
    /\ UNCHANGED <<reading, window, listed, armed, expired, held>>

MintFails ==
    /\ run["issue"].stage = "minting"
    /\ run' = [run EXCEPT !["issue"] = NoRun]
    /\ UNCHANGED <<service, reading, window, listed, armed, expired, held, faults>>

\* The counter and the key in one put, then the alarm if there is none, then
\* the answer.
Stores ==
    /\ run["issue"].stage = "storing"
    /\ window' = [hour |-> run["issue"].asked, total |-> Counted(run["issue"].asked) + 1]
    /\ listed' = listed \union {run["issue"].cred}
    /\ run' = [run EXCEPT !["issue"].stage = "arming"]
    /\ UNCHANGED <<service, reading, armed, expired, held, faults>>

Answers ==
    /\ run["issue"].stage = "arming"
    /\ armed' = TRUE
    /\ held' = held \union {run["issue"].cred}
    /\ run' = [run EXCEPT !["issue"] = NoRun]
    /\ UNCHANGED <<service, reading, window, listed, expired, faults>>

\* The alarm lists what is issued as it starts.
AlarmStarts ==
    /\ armed /\ run["alarm"].stage = "idle" /\ MayRun("alarm")
    /\ armed' = FALSE
    /\ run' = [run EXCEPT !["alarm"] = [NoRun EXCEPT !.stage = "started", !.todo = listed]]
    /\ UNCHANGED <<service, reading, window, listed, expired, held, faults>>

\* The cell stops: the runtime runs an alarm that did not end again.
TurnStops ==
    /\ faults > 0 /\ faults' = faults - 1
    /\ armed' = (armed \/ run["alarm"].stage # "idle")
    /\ run' = [r \in {"issue", "alarm"} |-> NoRun]
    /\ UNCHANGED <<service, reading, window, listed, expired, held>>

AlarmWorks ==
    \/ AlarmStarts \/ UsesReading("alarm") \/ ReadingAnswered("alarm") \/ RevokeEnds("alarm")
    \/ \E c \in Creds : Revokes("alarm", c)
IssueWorks ==
    \/ UsesReading("issue") \/ ReadingAnswered("issue") \/ RevokeEnds("issue")
    \/ (\E c \in Creds : Revokes("issue", c)) \/ Mints \/ MintFails \/ Stores \/ Answers

TurnNext ==
    \/ BudgetReached \/ ReadingAges \/ \E c \in Creds : Expires(c)
    \/ IssueStarts \/ IssueWorks \/ AlarmWorks \/ TurnStops

-----------------------------------------------------------------------------
\* A credential a participant holds that has not expired and that the service
\* honours is listed for revocation, whatever failed, stopped or came in
\* between (turn.js issue, revokeAll, alarm).
TurnTracked == (held \intersect service.live) \ expired \subseteq listed

\* Once the egress is over the budget every credential held is revoked, unless
\* it expires first: requests, failed calls and a stop do not break the chain
\* of alarms (turn.js alarm).
TurnRevoked == service.over ~> (held \intersect service.live) \subseteq expired
=============================================================================
