------------------------------ MODULE Mes0dte ------------------------------
(***************************************************************************)
(* One session date of the MES 0DTE daemon (scripts/live_mes_0dte.py): the *)
(* entry job and the management sweep are separate short-lived processes   *)
(* that share a record file and a kill-switch file and never wait for a    *)
(* fill.  Timers (deploy/gcp/systemd) start one sweep per tick and give it *)
(* up before the next; the entry job may also be started again by hand.    *)
(* Either process may die anywhere, also while it writes the record.       *)
(***************************************************************************)
EXTENDS Integers, Sequences, FiniteSets

CONSTANTS
    LastTick,       \* the ticks of the day are 0..LastTick
    ForceTick,      \* FORCE_CLOSE_MARKET_TIME
    MaxEntryRuns    \* bound: starts of the entry job

ASSUME TicksAssumption == LastTick \in Nat /\ ForceTick \in 0..LastTick
ASSUME MaxEntryRunsAssumption == MaxEntryRuns \in Nat

VARIABLES
    clock,      \* the current tick; LastTick + 1 once the market is closed
    swept,      \* whether the sweep of this tick has been started
    kill,       \* KILL_SWITCH_FILE exists
    record,     \* the entry record file: none, open, closed or torn
    epc, mpc,   \* where the entry job and the sweep stand
    entryRuns,  \* starts of the entry job
    orders,     \* orders the broker has received
    since,      \* history: the tick at which the record was written
    fault,      \* history: ticks whose sweep was missed, failed or died
    lost        \* history: the orders whose job died before it could record them

files == <<kill, record>>
history == <<since, fault, lost>>
vars == <<clock, swept, files, epc, mpc, entryRuns, orders, history>>

-----------------------------------------------------------------------------
(* Orders are DAY combos: the broker fills them or lets them die. *)
Sent(role) == {i \in DOMAIN orders : orders[i].role = role}
LastSent(role) == CHOOSE i \in Sent(role) : \A j \in Sent(role) : j <= i
Lots(n) == Cardinality({i \in DOMAIN orders :
                           orders[i].lots = n /\ orders[i].status = "filled"})
Held == Lots(1) - Lots(-1)

PlaceCombo(role, lots) ==
    orders' = Append(orders, [role |-> role, lots |-> lots, status |-> "working"])

Outcome(i, status) ==
    /\ orders[i].status = "working"
    /\ orders' = [orders EXCEPT ![i].status = status]
    /\ UNCHANGED <<clock, swept, files, epc, mpc, entryRuns, history>>

-----------------------------------------------------------------------------
Init == /\ clock = 0 /\ swept = FALSE
        /\ kill \in BOOLEAN
        /\ record = "none"
        /\ epc = "idle" /\ mpc = "idle"
        /\ entryRuns = 0
        /\ orders = <<>>
        /\ since = 0 /\ fault = {} /\ lost = {}

(* A version that takes a closed record for no record. *)
MayEnterAfterClose == ~ kill /\ record \in {"none", "closed"}

(* run_entry refuses under the kill switch and when a record exists; a torn *)
(* record makes it raise.                                                   *)
MayEnter == ~ kill /\ record = "none"

EntryStart ==
    /\ clock <= LastTick
    /\ epc = "idle" /\ entryRuns < MaxEntryRuns
    /\ MayEnter
    /\ epc' = "checked"
    /\ entryRuns' = entryRuns + 1
    /\ UNCHANGED <<clock, swept, files, mpc, orders, history>>

(* The gate, a price, a quote or the placement fails. *)
EntryGivesUp ==
    /\ epc = "checked"
    /\ epc' = "idle"
    /\ UNCHANGED <<clock, swept, files, mpc, entryRuns, orders, history>>

EntryPlace ==
    /\ epc = "checked"
    /\ PlaceCombo("entry", 1)
    /\ epc' = "placed"
    /\ UNCHANGED <<clock, swept, files, mpc, entryRuns, history>>

(* write_entry_record, right after the placement. *)
EntryRecord ==
    /\ epc = "placed"
    /\ record' = "open" /\ since' = clock
    /\ epc' = "idle"
    /\ UNCHANGED <<clock, swept, kill, mpc, entryRuns, orders, fault, lost>>

(* The job dies between placement and record, or in the middle of writing. *)
EntryDies ==
    /\ epc = "placed"
    /\ record' \in {record, "torn"}
    /\ lost' = lost \cup {LastSent("entry")}
    /\ epc' = "idle"
    /\ UNCHANGED <<clock, swept, kill, mpc, entryRuns, orders, since, fault>>

-----------------------------------------------------------------------------
SweepStart ==
    /\ clock <= LastTick
    /\ ~ swept /\ mpc = "idle"
    /\ record = "open"
    /\ swept' = TRUE
    /\ mpc' = "read"
    /\ UNCHANGED <<clock, files, epc, entryRuns, orders, history>>

(* A version that is late by one tick. *)
ForceDueLate == clock > ForceTick

ForceDue == clock >= ForceTick

(* The trigger, in the order of precedence of run_management; whether the   *)
(* profit target is reached is the market's business.                       *)
Trigger(profit) == CASE kill     -> "kill_switch"
                     [] ~ kill /\ profit -> "profit_take"
                     [] ~ kill /\ ~ profit /\ ForceDue -> "force_close_eod"
                     [] OTHER    -> "hold"

SweepHolds ==
    /\ mpc = "read"
    /\ \E profit \in BOOLEAN : Trigger(profit) = "hold"
    /\ mpc' = "idle"
    /\ UNCHANGED <<clock, swept, files, epc, entryRuns, orders, history>>

(* A version that forgets to turn the quantities over. *)
CloseLotsUnflipped == 1

(* build_close_order_from_record: the entry's legs, turned over. *)
CloseLots == -1

SweepPlace ==
    /\ mpc = "read"
    /\ \E profit \in BOOLEAN : Trigger(profit) # "hold"
    /\ PlaceCombo("close", CloseLots)
    /\ mpc' = "placed"
    /\ UNCHANGED <<clock, swept, files, epc, entryRuns, history>>

(* mark_entry_closed rewrites the whole record. *)
MarkEntryClosed == "closed"

(* The record is marked closed once the closing combo is placed. *)
SweepMark ==
    /\ mpc = "placed"
    /\ record' = MarkEntryClosed
    /\ mpc' = "idle"
    /\ UNCHANGED <<clock, swept, kill, epc, entryRuns, orders, history>>

(* The price, a quote, or the placement fails. *)
SweepFails ==
    /\ mpc = "read"
    /\ mpc' = "idle"
    /\ fault' = fault \cup {clock}
    /\ UNCHANGED <<clock, swept, files, epc, entryRuns, orders, since, lost>>

SweepDies ==
    /\ mpc = "placed"
    /\ record' \in {record, "torn"}
    /\ lost' = lost \cup {LastSent("close")}
    /\ fault' = fault \cup {clock}
    /\ mpc' = "idle"
    /\ UNCHANGED <<clock, swept, kill, epc, entryRuns, orders, since>>

-----------------------------------------------------------------------------
(* The operator touches or removes the kill-switch file. *)
Operator ==
    /\ clock <= LastTick
    /\ kill' = ~ kill
    /\ UNCHANGED <<clock, swept, record, epc, mpc, entryRuns, orders, history>>

(* Both jobs are given up before the next tick.  A tick whose sweep did not *)
(* run although it had something to manage counts as a fault.               *)
Tick ==
    /\ clock <= LastTick
    /\ epc = "idle" /\ mpc = "idle"
    /\ clock' = clock + 1
    /\ swept' = FALSE
    /\ fault' = IF ~ swept /\ record = "open" THEN fault \cup {clock} ELSE fault
    /\ UNCHANGED <<files, epc, mpc, entryRuns, orders, since, lost>>

Next == \/ EntryStart \/ EntryGivesUp \/ EntryPlace \/ EntryRecord \/ EntryDies
        \/ SweepStart \/ SweepHolds \/ SweepPlace \/ SweepMark \/ SweepFails \/ SweepDies
        \/ Operator \/ Tick
        \/ \E i \in DOMAIN orders : Outcome(i, "filled") \/ Outcome(i, "dead")

Spec == Init /\ [][Next]_vars

-----------------------------------------------------------------------------
(* One entry order and one closing order a day, whatever is started again   *)
(* and when: every further one is owed to a job that died before it could   *)
(* record the one before.                                                   *)
OneOrderEach ==
    \A role \in {"entry", "close"} :
        Cardinality(Sent(role)) <= 1 + Cardinality(lost \cap Sent(role))

(* The position the record does not tell has a cause that can be named: the *)
(* record says closed and a condor is held only if the close did not fill   *)
(* or an entry was lost; the condor is turned over only if a close was sent *)
(* for an entry that did not fill, or a close was lost.                     *)
MisstatedHasACause ==
    /\ (record = "closed" /\ Held > 0) =>
          \/ \E i \in Sent("close") : orders[i].status # "filled"
          \/ lost \cap Sent("entry") # {}
    /\ Held < 0 =>
          \/ \E i \in Sent("entry") : orders[i].status # "filled"
          \/ lost \cap Sent("close") # {}

(* A day ends with its record open only if every sweep from the force-close *)
(* time on, since the record was written, was missed, failed or died: a     *)
(* sweep that runs to its end at or after that time closes.                 *)
DayEndsClosed ==
    (clock > LastTick /\ record = "open")
        => \A t \in ForceTick..LastTick : t > since => t \in fault
=============================================================================
