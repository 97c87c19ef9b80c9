----------------------------- MODULE MCBilling ------------------------------
(***************************************************************************)
(* A small instance of Billing for TLC: limits of one and two documents    *)
(* instead of 50 and 500, and codes that the webhook refuses.              *)
(***************************************************************************)
EXTENDS Billing, TLC

MCLimit == ("start" :> 1) @@ ("business" :> 2) @@ ("enterprise" :> 0)
MCPlanCodes == {"start", "business", "enterprise", "unknown"}
MCStatusCodes == {"active", "cancelled", "unknown"}
=============================================================================
