----------------------------- MODULE PortalOffice -----------------------------
(***************************************************************************)
(* One stored row of one kind and everybody who writes it: the generic     *)
(* routes (POST, PUT, PATCH, trash, restore, purge), which know the        *)
(* columns and not what they mean; the verbs, which keep the row's         *)
(* lifecycle; the principal's own patch.  A PUT carries a form that was    *)
(* read earlier: between the two the row may have moved on.                *)
(*                                                                         *)
(* A token or an invitation minted by its verb also has a link, handed out *)
(* and kept by somebody.  What is checked at its next use is the row as    *)
(* the routes have left it.                                                *)
(*                                                                         *)
(* Time runs in half seconds: a link carries whole seconds, a row does not.*)
(***************************************************************************)
EXTENDS PortalRecords, PortalRecipient

CONSTANTS
    Kind,        \* the kinds of row looked at
    Id,          \* principals, officers, identities
    Instant,     \* the instants a route can be given
    Edited,      \* the columns a PUT or a PATCH edits (a POST sets any)
    Ttl,         \* how long a minted link lasts, in half seconds
    MaxTime,     \* bound on the clock
    MaxWrites    \* bound on the writes of the generic routes

ASSUME KindAssumption == Kind \subseteq Kinds
(* The second parts of values that are no ids. *)
Word == {"at", "plain", "wide", "blank", "nonce", "masked", "invited", "active", "revoked",
         "archived", "rotated", "pending", "redeemed", "expired", "none", "yes", "no"}
ASSUME IdAssumption == Id # {} /\ Id \cap Word = {}
(* NULL is no text, time, name or id, and no answer of this module. *)
ASSUME NoneAssumption == None \notin {"generic", "verb"} \cup (Nat \X (Word \cup Id))
ASSUME TimeAssumption ==
    Instant \subseteq Nat /\ Ttl \in Nat /\ MaxTime \in Nat /\ MaxWrites \in Nat

VARIABLES
    kind,    \* which of the four the row is
    row,     \* its columns, or None: no row
    gone,    \* metadata.deleted_at is set
    born,    \* who inserted it: "generic", "verb", or None before anybody did
    form,    \* what an officer has read, or None
    link,    \* what was handed out when the row was minted, or None
    now,
    said,    \* how the last write ended
    writes   \* writes of the generic routes so far

ovars == <<kind, row, gone, born, form, link, now, said, writes>>

-----------------------------------------------------------------------------
(* What the routes and verbs can be given.                                 *)

TimeColumn == {"revoked_at", "archived_at", "last_login_at", "token_expires_at",
               "rotated_at", "last_used_at", "redeemed_at"}
IdColumn == {"sapiens_user_id", "user_id", "rotated_to", "granted_by", "redeemed_by",
             "updated_by"}

Status(k) == CASE k = "user" -> {"invited", "active", "revoked", "archived"}
               [] k = "token" -> {"active", "rotated", "revoked"}
               [] k = "invite" -> {"pending", "redeemed", "revoked", "expired"}
               [] k = "policy" -> {}

(* Texts about every limit some table has for the column.                  *)
LimitOf(c, limit) == IF c \in DOMAIN limit THEN {limit[c]} ELSE {}
Limits(k, c) == LimitOf(c, RowRules(k).limit) \cup LimitOf(c, Checks(k).limit)
                    \cup (IF k = "user" THEN LimitOf(c, DetailLimit) ELSE {})
Text(k, c) == {<<1, "blank">>}
                \cup {<<n, shape>> : n \in Limits(k, c), shape \in {"plain", "wide"}}
                \cup {<<n + 1, "plain">> : n \in Limits(k, c)}

Input(k, c) ==
    {None} \cup CASE c \in TimeColumn -> {At(t) : t \in Instant}
                  [] c \in IdColumn -> {Named(i) : i \in Id}
                  [] c = "status" -> {Named(s) : s \in Status(k)}
                  [] c = "enabled" -> {Named("yes"), Named("no")}
                  [] OTHER -> Text(k, c)

Fresh == <<32, "nonce">>
Plain(k) == [c \in Columns(k) |->
               CASE c \in {"email", "recipient_email"} -> <<3, "plain">>
                 [] c = "user_id" -> Named(CHOOSE i \in Id : TRUE)
                 [] c = "token_nonce" -> Fresh
                 [] c = "token_expires_at" -> At(now + Ttl)
                 [] c = "enabled" -> Named("no")
                 [] c = "status" -> Named("active")
                 [] OTHER -> None]

-----------------------------------------------------------------------------
(* The link: the stored nonce and the expiry in seconds, and a MAC over    *)
(* them and the grant.  MACs are equal when their inputs are.              *)

Seconds(at) == at[1] \div 2
Grant(k, r) == IF k = "token" THEN r.user_id ELSE r.recipient_email
LinkOf(k, r) == LET exp == Seconds(r.token_expires_at) IN
    [nonce |-> r.token_nonce, exp |-> exp,
     mac |-> [grant |-> Grant(k, r), nonce |-> r.token_nonce, exp |-> exp]]

Usable == IF kind = "token" THEN "active" ELSE "pending"

(* Slip: the MAC computed over what was presented. *)
AuthenticAsPresented(r) ==
    link.mac = [grant |-> Grant(kind, r), nonce |-> link.nonce, exp |-> link.exp]
(* The MAC over the stored fields, and the presented ones equal to them.   *)
Authentic(r) ==
    /\ link.mac = LinkOf(kind, r).mac
    /\ link.nonce = r.token_nonce
    /\ link.exp = Seconds(r.token_expires_at)

(* verify_bearer; redeem, where email is the address its presenter gives.  *)
Accepts(email) ==
    /\ link # None /\ row # None /\ ~gone
    /\ Authentic(row)
    /\ now <= row.token_expires_at[1]
    /\ row.status = Named(Usable)
    /\ kind = "invite" => email = row.recipient_email

Presenter == {None} \cup (IF kind = "invite" THEN Input("invite", "recipient_email") \cup {<<3, "plain">>}
                          ELSE {})

-----------------------------------------------------------------------------
(* Writing.                                                                *)

Keep == UNCHANGED <<kind, now>>

(* A row a service would store: its row rules on the columns looked at     *)
(* first, then the table.                                                  *)
Save(after, looked) ==
    IF ~Satisfies(after, RowRules(kind), looked) THEN said' = "refused" /\ UNCHANGED row
    ELSE IF ~Fits(kind, after) THEN said' = "tripped" /\ UNCHANGED row
    ELSE said' = "ok" /\ row' = after

(* A verb's write: to the table at once.                                   *)
Store(after) == IF Fits(kind, after) THEN said' = "ok" /\ row' = after
                    ELSE said' = "failed" /\ UNCHANGED row

Parses(dto, body) == \A c \in body \cap Required(kind) : dto[c] # None

Generic == writes < MaxWrites /\ writes' = writes + 1 /\ Keep
Stored == row # None /\ ~gone

(* POST: a body with one column anything. *)
Create ==
    /\ Generic /\ born = None
    /\ \E c \in CreateDto(kind) : \E v \in Input(kind, c) :
        LET dto == [Plain(kind) EXCEPT ![c] = v] IN
        IF Parses(dto, CreateDto(kind)) THEN Save(Created(kind, dto), Columns(kind))
        ELSE said' = "refused" /\ UNCHANGED row
    /\ born' = IF said' = "ok" THEN "generic" ELSE None
    /\ UNCHANGED <<gone, form, link>>

(* GET: the officer's form.  It is kept while others write. *)
Read ==
    /\ Stored
    /\ form' = Responded(kind, row)
    /\ UNCHANGED <<kind, row, gone, born, link, now, said, writes>>

(* A protected column is refused, or what is stored of it is kept; the     *)
(* row rules look at the columns that change.                              *)
Overwrite(after) ==
    LET protected == {c \in Columns(kind) : c \in Meta(kind).protected}
        kept == [c \in DOMAIN after |-> IF c \in protected THEN row[c] ELSE after[c]]
    IN \/ /\ \E c \in protected : after[c] # row[c]
          /\ said' = "refused" /\ UNCHANGED row
       \/ Save(kept, {c \in Columns(kind) : kept[c] # row[c]})

(* PUT: the form, one column edited or none. *)
Update ==
    /\ Generic /\ Stored /\ form # None
    /\ \E c \in UpdateDto(kind) \cap Edited : \E v \in Input(kind, c) \cup {form[c]} :
        LET dto == [form EXCEPT ![c] = v] IN
        IF Parses(dto, UpdateDto(kind)) THEN Overwrite(Updated(kind, row, dto))
        ELSE said' = "refused" /\ UNCHANGED row
    /\ form' = None
    /\ UNCHANGED <<gone, born, link>>

(* PATCH: a body of one key, a column or not. *)
Patch ==
    /\ Generic /\ Stored
    /\ \E c \in (Columns(kind) \cap Edited) \cup {"no_column"} : \E v \in Input(kind, c) :
        Overwrite(Patched(kind, row, [key \in {c} |-> v]))
    /\ UNCHANGED <<gone, born, form, link>>

Trash ==
    /\ Stored /\ Keep
    /\ gone' = TRUE /\ said' = "ok"
    /\ UNCHANGED <<row, born, form, link, writes>>

Untrash ==
    /\ gone /\ Keep
    /\ gone' = FALSE /\ said' = "ok"
    /\ UNCHANGED <<row, born, form, link, writes>>

Purge ==
    /\ gone /\ Keep
    /\ row' = None /\ gone' = FALSE /\ said' = "ok"
    /\ UNCHANGED <<born, form, link, writes>>

-----------------------------------------------------------------------------
(* The verbs.                                                              *)

Verb == UNCHANGED <<kind, gone, born, form, link, now, writes>>

(* The principal insert of a redemption, whose address fits, or of a       *)
(* signup, whose address nobody has measured.                              *)
Admit ==
    /\ kind = "user" /\ born = None
    /\ \E email \in {<<3, "plain">>, <<PortalUserChecks.limit.email + 1, "plain">>} :
        Store([Plain("user") EXCEPT !.email = email])
    /\ born' = IF said' = "ok" THEN "verb" ELSE None
    /\ UNCHANGED <<kind, gone, form, link, now, writes>>

(* mint_bearer. *)
MintBearer ==
    /\ kind = "token" /\ born = None
    /\ row' = Plain("token") /\ born' = "verb" /\ said' = "ok"
    /\ link' = LinkOf("token", Plain("token"))
    /\ UNCHANGED <<kind, gone, form, now, writes>>

(* An address checked in bytes and for its @, then inserted.               *)
Mint ==
    /\ kind = "invite" /\ born = None
    /\ \E e \in {<<3, "plain">>} \cup (Input("invite", "recipient_email") \ {None}) :
        LET new == [Plain("invite") EXCEPT !.recipient_email = e,
                                           !.status = Named("pending")] IN
        IF Blank(e) \/ Bytes(e) > 320
        THEN said' = "refused" /\ UNCHANGED <<row, born, link>>
        ELSE IF ~Fits("invite", new)
        THEN said' = "tripped" /\ UNCHANGED <<row, born, link>>
        ELSE /\ said' = "ok" /\ row' = new /\ born' = "verb"
             /\ link' = LinkOf("invite", new)
    /\ UNCHANGED <<kind, gone, form, now, writes>>

(* set_signup_policy: DELETE and INSERT in one transaction; the note is    *)
(* the caller's.                                                           *)
SetSignupPolicy ==
    /\ kind = "policy"
    /\ \E on \in {"yes", "no"}, note \in Input("policy", "note"), who \in Input("policy", "updated_by") :
        LET new == [enabled |-> Named(on), note |-> note, updated_by |-> who] IN
        /\ Store(new)
        /\ IF said' = "ok" THEN gone' = FALSE /\ born' = "verb" ELSE UNCHANGED <<gone, born>>
    /\ UNCHANGED <<kind, form, link, now, writes>>

(* revoke_access, revoke_bearer, revoke_all_bearers, revoke_invite and its *)
(* sweeps: the principal's asks for a live row, the others' do not.  The   *)
(* reason goes in as it came.                                              *)
Revocable == CASE kind = "user" -> ~gone /\ row.status # Named("revoked")
               [] kind = "token" -> row.status = Named("active")
               [] kind = "invite" -> row.status = Named("pending")
               [] kind = "policy" -> FALSE

Revoke ==
    /\ row # None /\ Revocable
    /\ \E why \in Text(kind, "revocation_reason") :
        Store([row EXCEPT !.status = Named("revoked"), !.revoked_at = At(now),
                              !.revocation_reason = why])
    /\ Verb

Rotate ==
    /\ kind = "token" /\ Accepts(None)
    /\ \E successor \in Id :
        Store([row EXCEPT !.status = Named("rotated"), !.rotated_at = At(now),
                              !.rotated_to = Named(successor)])
    /\ Verb

(* The check of a bearer leaves its mark.                                  *)
Touch ==
    /\ kind = "token" /\ Accepts(None)
    /\ Store([row EXCEPT !.last_used_at = At(now)])
    /\ Verb

Redeem ==
    /\ kind = "invite"
    /\ \E email \in Presenter : Accepts(email)
    /\ \E principal \in Id :
        Store([row EXCEPT !.status = Named("redeemed"), !.redeemed_at = At(now),
                              !.redeemed_by = Named(principal)])
    /\ Verb

SweepExpired ==
    /\ kind = "invite" /\ row # None
    /\ row.status = Named("pending") /\ row.token_expires_at[1] < now
    /\ Store([row EXCEPT !.status = Named("expired")])
    /\ Verb

(* A sign-in's mark, and the identity of an onboarding envelope.           *)
Login ==
    /\ kind = "user" /\ Stored /\ row.status = Named("active")
    /\ Store([row EXCEPT !.last_login_at = At(now)])
    /\ Verb

Onboard ==
    /\ kind = "user" /\ Stored /\ row.sapiens_user_id = None
    /\ \E i \in Id : Store([row EXCEPT !.sapiens_user_id = Named(i)])
    /\ Verb

(* update_my_details with one arm: refused over its limit, NotFound off an *)
(* active live row, else to the table.                                     *)
UpdateMyDetails ==
    /\ kind = "user" /\ row # None
    /\ \E c \in DOMAIN DetailLimit : \E v \in Text("user", c) :
        LET new == [row EXCEPT ![c] = v] IN
        IF ~ValidDetail(c, v) \/ gone \/ row.status # Named("active")
        THEN said' = "refused" /\ UNCHANGED row
        ELSE IF Fits("user", new) THEN said' = "ok" /\ row' = new
        ELSE said' = "tripped" /\ UNCHANGED row
    /\ Generic /\ UNCHANGED <<gone, born, form, link>>

Tick ==
    /\ link # None /\ now < MaxTime
    /\ now' = now + 1
    /\ UNCHANGED <<kind, row, gone, born, form, link, said, writes>>

-----------------------------------------------------------------------------
OInit ==
    /\ kind \in Kind
    /\ row = None /\ gone = FALSE /\ born = None
    /\ form = None /\ link = None /\ now = 0 /\ said = "ok" /\ writes = 0

Routes == Create \/ Read \/ Update \/ Patch \/ Trash \/ Untrash \/ Purge
Verbs == \/ Admit \/ MintBearer \/ Mint \/ SetSignupPolicy \/ Revoke \/ Rotate \/ Touch
         \/ Redeem \/ SweepExpired \/ Login \/ Onboard \/ UpdateMyDetails

ONext == Routes \/ Verbs \/ Tick

OSpec == OInit /\ [][ONext]_ovars

-----------------------------------------------------------------------------
(* Properties.                                                             *)

(* A stored row has its columns and no others, NULL in none that is        *)
(* required, whatever bodies, patches and reasons it has seen; a link      *)
(* names the row's own columns and nothing else is handed out.             *)
OTypeOK ==
    /\ kind \in Kind /\ gone \in BOOLEAN /\ born \in {None, "generic", "verb"}
    /\ now \in 0..MaxTime /\ writes \in 0..MaxWrites
    /\ said \in {"ok", "refused", "tripped", "failed"}
    /\ \A r \in {row, form} \ {None} : DOMAIN r = Columns(kind)
    /\ row # None => \A c \in Required(kind) : row[c] # None
    /\ link # None => kind \in {"token", "invite"} /\ born = "verb"

(* A row's status moves along the edges of its verbs only: whatever the    *)
(* generic routes are sent, a form read before a revocation included, a    *)
(* revoked, rotated, redeemed or expired row stays what it is.             *)
Edge(k) == CASE k = "user" -> {"invited", "active", "archived"} \X {"revoked"}
             [] k = "token" -> {"active"} \X {"rotated", "revoked"}
             [] k = "invite" -> {"pending"} \X {"redeemed", "revoked", "expired"}
             [] k = "policy" -> {}
StatusByVerb ==
    [][row # None /\ row' # None /\ kind # "policy" /\ row'.status # row.status
         => <<row.status[2], row'.status[2]>> \in Edge(kind)]_ovars

(* A write that a generic service, the self-service patch or the mint of   *)
(* an invitation has found good never trips a CHECK of the table: the      *)
(* limits are kept in three places, counted in characters or in bytes, and *)
(* the row rules look only at the columns that change.                     *)
ChecksHold == said # "tripped"

(* A link speaks for the grant it was minted for, and not beyond its       *)
(* second, whatever the generic routes have made of the stored expiry,     *)
(* principal, address or nonce since.                                      *)
LinkSound ==
    \A email \in Presenter : Accepts(email) =>
        /\ Seconds(At(now)) <= link.exp
        /\ link.mac.grant = Grant(kind, row)
        /\ kind = "invite" => email = link.mac.grant
        /\ row.token_nonce = link.mac.nonce

(* A principal inserted by the generic route is never active: only a       *)
(* redemption or a signup admits.                                          *)
CreatedNotAdmitted ==
    row # None /\ kind = "user" /\ born = "generic" => row.status # Named("active")

(* The lists of columns agree where they have to: a form just read can be  *)
(* put back and changes nothing, though a secret column is masked in it;   *)
(* one edited column means the same through PUT and through PATCH; a POST  *)
(* of a row's columns makes a row of them, with the status of a new one.   *)
(* The updated_by of a policy is left out: it has no patch arm.            *)
RoutesAgree ==
    row # None =>
        /\ \A c \in Columns(kind) \ {"status"} : Created(kind, row)[c] = row[c]
        /\ form = Responded(kind, row) =>
            /\ Updated(kind, row, form) = row
            /\ \A c \in UpdateDto(kind) \ {"updated_by"} : \A v \in Input(kind, c) :
                Takes(kind, c, v) => Updated(kind, row, [form EXCEPT ![c] = v])
                                        = Patched(kind, row, [key \in {c} |-> v])

(* A recipient credential verifies exactly when it is a minted one, spelled *)
(* in any way the parsers know, and its expiry has not passed: no two      *)
(* emails, dotted or ending in a number, share a link, a missing email     *)
(* matches none, and none minted is refused.  A value that was never       *)
(* minted in that spelling is accepted.                                    *)
RecipientBinds ==
    born = None => \A t \in Instant, value \in SomeValue(Id, Instant) :
        VerifyRecipientCredential(value, t)
            <=> \E u \in Id, e \in SomeEmail, exp \in Instant :
                    Respells(value, MintRecipientCredential(u, e, exp)) /\ t <= exp
=============================================================================
