-------------------------- MODULE MCBillingExpiry --------------------------
(***************************************************************************)
(* An instance of Billing for the worker: two customers on the promo code, *)
(* of whom one also buys.  Only these buttons are pressed; every step of   *)
(* both threads is that of Billing.                                        *)
(***************************************************************************)
EXTENDS Billing

CONSTANTS u1, u2

MCUsers == {u1, u2}

(* The manual key comes last: it has nothing to do with anybody's expiry.  *)
Pressed ==
  {m \in Update :
     \/ m.kind \in {"start", "promo", "approve"}
     \/ m.kind \in {"buy", "plan", "submit"} /\ m.of = u1
     \/ m.kind = "create" /\ m.of = Admin /\ active = {} /\ now = MaxNow}

MCNext ==
  \/ Polling \/ CheckExpirations \/ Tick \/ Crash
  \/ \E m \in Pressed : Send(m)

MCLiveSpec == Init /\ [][MCNext]_vars /\ Fairness
=============================================================================
