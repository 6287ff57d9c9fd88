----------------------------- MODULE IbkrStatus -----------------------------
(***************************************************************************)
(* The status table of execution/ibkr_status.py: the order state that an   *)
(* IBKR status string and its fill count propose.                          *)
(***************************************************************************)
LOCAL INSTANCE Integers

Hold == "hold"

DirectMap == [PendingSubmit |-> "SUBMITTED", PreSubmitted |-> "SUBMITTED",
              ApiPending    |-> "SUBMITTED", Submitted    |-> "WORKING",
              ApiCancelled  |-> "CANCELLED", Cancelled    |-> "CANCELLED",
              Inactive      |-> "REJECTED"]

(* A version that holds the cancellation of an unacknowledged order. *)
MapIbkrStatusHoldsApiCancelled(status, filled, total) ==
    CASE status \in {"PendingCancel", "ApiCancelled"} -> Hold
      [] status \in DOMAIN DirectMap  -> DirectMap[status]
      [] status = "Filled"            -> IF filled = total THEN "FILLED" ELSE "PARTIAL"
      [] OTHER                        -> "UNKNOWN"

(* map_ibkr_status: the state an event proposes, or Hold. *)
MapIbkrStatus(status, filled, total) ==
    CASE status = "PendingCancel"     -> Hold
      [] status \in DOMAIN DirectMap  -> DirectMap[status]
      [] status = "Filled"            ->
             CASE total <= 0      -> "UNKNOWN"
               [] filled >= total -> "FILLED"
               [] filled \in 1..(total - 1) -> "PARTIAL"
               [] OTHER           -> "UNKNOWN"
      [] OTHER                        -> "UNKNOWN"
=============================================================================
