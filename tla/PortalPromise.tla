--------------------------- MODULE PortalPromise ----------------------------
(***************************************************************************)
(* What the portal promises the host about bearer credentials, in one      *)
(* atomic step per decision: who is a member, which credentials are live,  *)
(* and which answers a caller who presents one may get.  No database, no   *)
(* statements, no audit trail, no sweeps.                                  *)
(*                                                                         *)
(* The one promise about time is in Vouch and Grant: a caller is granted a *)
(* principal only if, at one instant after asking, the credential was live *)
(* and its owner a member.                                                 *)
(***************************************************************************)
CONSTANTS User, Token, Request, None

VARIABLES
    standing,    \* what the portal holds of each person
    credential,  \* the life of each bearer credential, and its owner
    claim        \* where each caller's question stands

vars == <<standing, credential, claim>>

Standing == {"none", "member", "away", "barred"}
Life == {"unborn", "live", "lapsed", "spent"}
Stage == {"asked", "vouched", "granted"}

NoClaim == [stage |-> "none", token |-> None]

TypeOK ==
    /\ standing \in [User -> Standing]
    /\ credential \in [Token -> [life : Life, owner : User \cup {None}]]
    /\ claim \in [Request -> [stage : Stage, token : Token] \cup {NoClaim}]

Init ==
    /\ standing = [u \in User |-> "none"]
    /\ credential = [t \in Token |-> [life |-> "unborn", owner |-> None]]
    /\ claim = [r \in Request |-> NoClaim]

(* none -> member once; barred is for ever; an archived member may return. *)
Stands(u, from, to) ==
    /\ standing[u] = from
    /\ standing' = [standing EXCEPT ![u] = to]
    /\ UNCHANGED <<credential, claim>>

Admit(u) == Stands(u, "none", "member")
Bar(u) == Stands(u, "member", "barred")
Archive(u) == Stands(u, "member", "away")
Restore(u) == Stands(u, "away", "member")

Issue(t, u) ==
    /\ credential[t].life = "unborn"
    /\ standing[u] # "none"
    /\ credential' = [credential EXCEPT ![t] = [life |-> "live", owner |-> u]]
    /\ UNCHANGED <<standing, claim>>

Lapse(t) ==
    /\ credential[t].life = "live"
    /\ credential' = [credential EXCEPT ![t].life = "lapsed"]
    /\ UNCHANGED <<standing, claim>>

Unspent(t) == credential[t].life \in {"live", "lapsed"}

Spend(S) ==
    /\ \A t \in S : Unspent(t)
    /\ credential' = [t \in Token |-> IF t \in S THEN [credential[t] EXCEPT !.life = "spent"]
                                                 ELSE credential[t]]
    /\ UNCHANGED <<standing, claim>>

Ask(r, t) ==
    /\ claim[r] = NoClaim
    /\ credential[t].life # "unborn"
    /\ claim' = [claim EXCEPT ![r] = [stage |-> "asked", token |-> t]]
    /\ UNCHANGED <<standing, credential>>

Vouch(r) ==
    /\ claim[r].stage = "asked"
    /\ credential[claim[r].token].life = "live"
    /\ standing[credential[claim[r].token].owner] = "member"
    /\ claim' = [claim EXCEPT ![r].stage = "vouched"]
    /\ UNCHANGED <<standing, credential>>

Grant(r) ==
    /\ claim[r].stage = "vouched"
    /\ claim' = [claim EXCEPT ![r].stage = "granted"]
    /\ UNCHANGED <<standing, credential>>

Close(r) ==
    /\ claim[r] # NoClaim
    /\ claim' = [claim EXCEPT ![r] = NoClaim]
    /\ UNCHANGED <<standing, credential>>

(* A granted caller swaps the credential for a new one of the same owner,  *)
(* once: the old one must be unspent and is spent by it.                   *)
Exchange(r, new) ==
    LET old == claim[r].token IN
    /\ claim[r].stage = "granted"
    /\ Unspent(old)
    /\ credential[new].life = "unborn"
    /\ credential' = [credential EXCEPT ![old].life = "spent",
                          ![new] = [life |-> "live", owner |-> credential[old].owner]]
    /\ claim' = [claim EXCEPT ![r] = NoClaim]
    /\ UNCHANGED standing

Next ==
    \/ \E u \in User : Admit(u) \/ Bar(u) \/ Archive(u) \/ Restore(u)
    \/ \E t \in Token : Lapse(t) \/ \E u \in User : Issue(t, u)
    \/ \E S \in SUBSET Token : Spend(S)
    \/ \E r \in Request :
        \/ Vouch(r) \/ Grant(r) \/ Close(r)
        \/ \E t \in Token : Ask(r, t) \/ Exchange(r, t)

Spec == Init /\ [][Next]_vars
=============================================================================
