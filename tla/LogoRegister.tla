----------------------------- MODULE LogoRegister -----------------------------
(***************************************************************************)
(* What the logo routes promise, without files, objects or protocols: each *)
(* organization has at most one logo, a PUT replaces it in one step, a     *)
(* DELETE clears it in one step, the committed events tell a consumer the  *)
(* same in the same step, and a logo once given up never comes back.       *)
(***************************************************************************)
CONSTANTS Orgs, Files, None

VARIABLES
    current,   \* each organization's logo
    told,      \* the logo a consumer of the events believes it has
    retired    \* the files that are no organization's logo ever again

registerVars == <<current, told, retired>>

RegisterInit ==
    /\ current = [o \in Orgs |-> None]
    /\ told = [o \in Orgs |-> None]
    /\ retired = {}

InUse(f) == \E o \in Orgs : current[o] = f

(* PUT: the logo is replaced, the replaced one retired.                    *)
Replace(o, f) ==
    /\ f \notin retired
    /\ ~InUse(f)
    /\ current' = [current EXCEPT ![o] = f]
    /\ told' = [told EXCEPT ![o] = f]
    /\ retired' = retired \cup ({current[o]} \ {None})

(* DELETE: the logo is cleared and retired.                                *)
Clear(o) ==
    /\ current[o] # None
    /\ current' = [current EXCEPT ![o] = None]
    /\ told' = [told EXCEPT ![o] = None]
    /\ retired' = retired \cup {current[o]}

(* A file given up before it became a logo.                                *)
Discard(f) ==
    /\ ~InUse(f)
    /\ retired' = retired \cup {f}
    /\ UNCHANGED <<current, told>>

RegisterNext ==
    \/ \E o \in Orgs, f \in Files : Replace(o, f)
    \/ \E o \in Orgs : Clear(o)
    \/ \E f \in Files : Discard(f)

RegisterSpec == RegisterInit /\ [][RegisterNext]_registerVars
=============================================================================
