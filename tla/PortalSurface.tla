---------------------------- MODULE PortalSurface ----------------------------
(***************************************************************************)
(* The principal's own record (portal_surface), on top of the access core. *)
(* In PortalAccess a bearer call that is not a rotation ends with its      *)
(* principal returned (pc "granted").  Here the route goes on from there,  *)
(* GET /me or PATCH /me, with that principal in hand and no further look   *)
(* at the token: whatever the other calls do to the principal happens      *)
(* between its statements.  Of GET /me/access-history only the end is here. *)
(*                                                                         *)
(* A record is the writable columns and the stamp of metadata.updated_by.  *)
(* A statement reads all of it, and writes the columns its patch names.    *)
(***************************************************************************)
EXTENDS PortalAccess

CONSTANTS
    Column,     \* the writable columns
    Value       \* what a patch can set one to

ASSUME ValueAssumption == None \notin Value

VARIABLES
    record,  \* the self-service columns of each principal
    desk     \* how far each request's route is behind its bearer check

svars == <<vars, record, desk>>

(* A column that a patch leaves out is None in it. *)
Columns == [Column -> Value \cup {None}]
NoColumn == [c \in Column |-> None]

Record == [columns : Columns, by : User \cup {None}]

DeskState == [stage : {"none", "written", "viewed"},
              patch : Columns,                     \* what its UPDATE wrote
              view : Record \cup {None},           \* the view it answers; None is NotFound
              over : SUBSET Column]                \* history: written after it by others

NoDesk == [stage |-> "none", patch |-> NoColumn, view |-> None, over |-> {}]

STypeOK ==
    /\ TypeOK
    /\ record \in [User -> Record]
    /\ desk \in [Request -> DeskState]

SInit ==
    /\ Init
    /\ record = [u \in User |-> [columns |-> NoColumn, by |-> None]]
    /\ desk = [r \in Request |-> NoDesk]

-----------------------------------------------------------------------------
(* The statements.                                                         *)

(* SELECT ... WHERE id = $1 AND status = 'active' AND it is not deleted;   *)
(* no row is NotFound.                                                     *)
View(u) == IF ActivePrincipal(u) THEN record[u] ELSE None

(* Slip: WHERE id = $1 alone. *)
WritableAnyway(u) == users[u].status # "absent"
(* The UPDATE's own fence: the bearer check before it is not trusted.      *)
Writable(u) == ActivePrincipal(u)

(* The patch is_empty: it sets no column, and is refused.                  *)
Patches == Columns \ {NoColumn}

Patched(u, p) == [c \in Column |-> IF p[c] = None THEN record[u].columns[c] ELSE p[c]]

Written(u, p) == [columns |-> Patched(u, p), by |-> u]

-----------------------------------------------------------------------------
(* The routes, from pc "granted" on.                                       *)

Served(r) == At(r, "granted") /\ desk[r].stage = "none"

(* The route answers and is done: the view or NotFound to GET /me; a body  *)
(* that is no patch, an empty patch or a value too long refused whole; a   *)
(* principal that is no longer active NotFound to PATCH /me; a history.    *)
AnswerAtOnce(r) ==
    /\ Served(r)
    /\ EndGranted(r)
    /\ desk' = [desk EXCEPT ![r] = NoDesk]
    /\ UNCHANGED record

(* Slip: the view fetched first, and answered after the write. *)
UpdateAnsweringEarlier(r) ==
    /\ Served(r)
    /\ \E p \in Patches :
        /\ Writable(req[r].user)
        /\ record' = [record EXCEPT ![req[r].user] = Written(req[r].user, p)]
        /\ desk' = [desk EXCEPT ![r].stage = "viewed", ![r].patch = p,
                                ![r].view = View(req[r].user)]
    /\ UNCHANGED vars

(* update_my_details' UPDATE, committed on its own.                        *)
UpdateMyDetails(r) ==
    LET u == req[r].user IN
    /\ Served(r)
    /\ Writable(u)
    /\ \E p \in Patches :
        /\ record' = [record EXCEPT ![u] = Written(u, p)]
        /\ desk' = [q \in Request |->
                      IF q = r THEN [desk[r] EXCEPT !.stage = "written", !.patch = p]
                      ELSE IF desk[q].stage = "written" /\ req[q].user = u
                           THEN [desk[q] EXCEPT !.over = @ \cup {c \in Column : p[c] # None}]
                           ELSE desk[q]]
    /\ UNCHANGED vars

(* The fresh view it answers is a second SELECT.  A revocation between the *)
(* two answers NotFound to a write that stays.                             *)
UpdateView(r) ==
    /\ At(r, "granted")
    /\ desk[r].stage = "written"
    /\ desk' = [desk EXCEPT ![r].stage = "viewed", ![r].view = View(req[r].user)]
    /\ UNCHANGED <<vars, record>>

Respond(r) ==
    /\ desk[r].stage = "viewed"
    /\ EndGranted(r)
    /\ desk' = [desk EXCEPT ![r] = NoDesk]
    /\ UNCHANGED record

(* A step of the core that is not the end of a served route, a failure     *)
(* included.                                                               *)
Elsewhere(r) ==
    /\ ~At(r, "granted")
    /\ Step(r)
    /\ UNCHANGED <<record, desk>>

(* The update stops between its two statements: what it wrote stays, and   *)
(* no view is answered.  MaxFaults does not count it: it leaves no row of  *)
(* the core half done.                                                     *)
Stop(r) ==
    /\ desk[r].stage = "written"
    /\ EndGranted(r)
    /\ desk' = [desk EXCEPT ![r] = NoDesk]
    /\ UNCHANGED record

World == (Expire \/ SoftDelete \/ Restore) /\ UNCHANGED <<record, desk>>

Route(r) == \/ AnswerAtOnce(r) \/ UpdateMyDetails(r) \/ UpdateView(r)
            \/ Respond(r)

SNext == (\E r \in Request : Elsewhere(r) \/ Route(r) \/ Stop(r)) \/ World

SSpec == SInit /\ [][SNext]_svars

-----------------------------------------------------------------------------
(* Properties.                                                             *)

(* A principal's record changes only while the principal is live and       *)
(* active, by a call that presented one of their links, and bears their    *)
(* stamp: a bearer check that passed before a revocation is worth nothing  *)
(* to the write behind it.                                                 *)
OwnLiveWrites ==
    [][\A u \in User : record'[u] # record[u] =>
         /\ ActivePrincipal(u)
         /\ record'[u].by = u
         /\ \E r \in Request : /\ desk[r].stage = "none" /\ desk'[r].stage = "written"
                               /\ tokens[req[r].token].user = u]_svars

(* Two updates of one record race: in each column that it set an answer    *)
(* shows its own value or that of a write that came after it, never what   *)
(* it replaced.                                                            *)
ViewCurrent ==
    \A r \in Request : \A c \in Column :
        /\ desk[r].stage = "viewed" /\ desk[r].patch[c] # None
        => \/ desk[r].view = None
           \/ desk[r].view.columns[c] = desk[r].patch[c]
           \/ c \in desk[r].over

=============================================================================
