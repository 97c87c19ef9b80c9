---------------------------- MODULE OneTimeCode ----------------------------
(***************************************************************************)
(* A row of the otp_challenges table and what the three statements of the  *)
(* repository do to it: SaveOTP, and the DELETE and the UPDATE of          *)
(* ValidateOTP, which run one after the other outside a transaction.  The  *)
(* row is shared by all the API replicas.  Both the login code and the     *)
(* code of the simple signature (PEP) live in this table.                  *)
(*                                                                         *)
(* A code stands for its digest.  A row whose expires_at has passed matches *)
(* none of the WHERE clauses until SaveOTP overwrites it, so it is the same *)
(* as no row: NoChallenge.                                                  *)
(***************************************************************************)
EXTENDS Integers

CONSTANTS
    Codes,            \* the codes a client can be sent or can submit
    OtpAttemptLimit,  \* wrong codes that void a challenge: 5 in the code
    None              \* the absent value

ASSUME CodesAssumption == None \notin Codes
ASSUME LimitAssumption == OtpAttemptLimit \in Nat \ {0}

Challenge == [code : Codes \cup {None}, attempts : 0 .. OtpAttemptLimit - 1]

NoChallenge == [code |-> None, attempts |-> 0]

\* SaveOTP: the upsert, which also clears the attempts of an earlier code.
Issued(code) == [code |-> code, attempts |-> 0]

\* The DELETE of ValidateOTP finds a live row with this code.
Matches(row, code) == row.code = code

\* The UPDATE of ValidateOTP: it counts a miss, and the last one voids the row.
Missed(row) ==
    IF row = NoChallenge \/ row.attempts + 1 >= OtpAttemptLimit
    THEN NoChallenge
    ELSE [row EXCEPT !.attempts = @ + 1]
============================================================================
