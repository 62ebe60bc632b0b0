-------------------------- MODULE PortalOfficeProofs --------------------------
(***************************************************************************)
(* Proofs about PortalOffice, PortalRecords and PortalRecipient, for every *)
(* set of ids and instants, any number of writes and any edited columns:   *)
(* what officers, verbs and the principal may do to one row in any order,  *)
(* and what the tables of the generated code have in common.               *)
(***************************************************************************)
EXTENDS PortalOffice, SequenceTheorems, TLAPS

-----------------------------------------------------------------------------
(* The laws of the lists: what the columns that the code writes out layer  *)
(* by layer, for each entity, have in common.                              *)

ListsAgree(k) ==
    /\ Required(k) \subseteq Columns(k)
    /\ Meta(k).protected \subseteq Columns(k)
    /\ ResponseDto(k) = Columns(k)
    /\ CreateDto(k) = From(k).takes
    /\ From(k).takes = Columns(k) \ {"status"}
    /\ UpdateDto(k) = Assigned(k)
    /\ Assigned(k) \subseteq Columns(k)
    /\ Assigned(k) \cap Meta(k).secret = {}
    /\ Arms(k) \subseteq Columns(k)
    /\ Assigned(k) \ {"updated_by"} \subseteq Arms(k)

LEMMA ColumnLists == ASSUME NEW k \in Kinds PROVE ListsAgree(k)
<1>. USE DEF ListsAgree, Required, Columns, Entity, Meta, ResponseDto, CreateDto, From, UpdateDto,
        Assigned, Arms, Of
<1>1. CASE k = "user"
  BY <1>1 DEF PortalUser, PortalUserMeta, PortalUserResponseDto, CreatePortalUserDto,
     PortalUserFrom, UpdatePortalUserDto, PortalUserAssigned, PortalUserArms
<1>2. CASE k = "token"
  BY <1>2 DEF PortalToken, PortalTokenMeta, PortalTokenResponseDto, CreatePortalTokenDto,
     PortalTokenFrom, UpdatePortalTokenDto, PortalTokenAssigned, PortalTokenArms
<1>3. CASE k = "invite"
  BY <1>3 DEF PortalInvite, PortalInviteMeta, PortalInviteResponseDto, CreatePortalInviteDto,
     PortalInviteFrom, UpdatePortalInviteDto, PortalInviteAssigned, PortalInviteArms
<1>4. CASE k = "policy"
  BY <1>4 DEF PortalSignupPolicy, PortalSignupPolicyMeta, PortalSignupPolicyResponseDto,
     CreatePortalSignupPolicyDto, PortalSignupPolicyFrom, UpdatePortalSignupPolicyDto,
     PortalSignupPolicyAssigned, PortalSignupPolicyArms
<1>. QED
  BY <1>1, <1>2, <1>3, <1>4 DEF Kinds

(* The status is protected wherever there is one.                          *)
LEMMA StatusProtected ==
    ASSUME NEW k \in Kinds
    PROVE  /\ k # "policy" => "status" \in Columns(k) \cap Required(k) \cap Meta(k).protected
           /\ k = "policy" => "status" \notin Columns(k)
  BY DEF Kinds, Required, Columns, Entity, PortalUser, PortalToken, PortalInvite,
     PortalSignupPolicy, Meta, PortalUserMeta, PortalTokenMeta, PortalInviteMeta, Of

(* What the row rules check and what the table checks.                     *)
LEMMA RulesAreChecks ==
    ASSUME NEW k \in Kinds
    PROVE  /\ RowRules(k) = Checks(k)
           /\ Checks(k).required \subseteq Required(k)
  BY DEF Kinds, RowRules, Checks, PortalUserRowRules, PortalUserChecks, PortalTokenRowRules,
     PortalTokenChecks, PortalInviteRowRules, PortalInviteChecks, PortalSignupPolicyRowRules,
     PortalSignupPolicyChecks, Required, Entity, PortalUser, PortalToken, PortalInvite,
     PortalSignupPolicy, Of

(* Each kind's birth status is one of its own.                             *)
LEMMA BirthIsStatus ==
    ASSUME NEW k \in Kinds, k # "policy"
    PROVE  From(k).birth \in Status(k) /\ From(k).birth \in Word
  BY DEF Kinds, From, PortalUserFrom, PortalTokenFrom, PortalInviteFrom, Status, Word, Of

-----------------------------------------------------------------------------
(* Cells and rows.  A row is a function on its columns, each with a value  *)
(* of its column's kind; a stored one also fits its table.                 *)

Shape == {"plain", "wide", "blank", "nonce", "masked"}

Cell(k, c) ==
    {None} \cup CASE c \in TimeColumn -> {At(t) : t \in Nat}
                  [] c \in IdColumn -> {Named(i) : i \in Id}
                  [] c = "status" -> {Named(s) : s \in Status(k)}
                  [] c = "enabled" -> {Named("yes"), Named("no")}
                  [] OTHER -> Nat \X Shape

IsRow(k, r) == r = [c \in Columns(k) |-> r[c]] /\ \A c \in Columns(k) : r[c] \in Cell(k, c)

RowOk(k, r) == IsRow(k, r) /\ Fits(k, r)

LEMMA ColumnShapes ==
    /\ TimeColumn \cap IdColumn = {}
    /\ {"status", "enabled"} \cap (TimeColumn \cup IdColumn) = {}
    /\ \A k \in Kinds :
         (DOMAIN RowRules(k).limit \cup DOMAIN Checks(k).limit \cup DOMAIN DetailLimit)
             \cap (TimeColumn \cup IdColumn \cup {"status", "enabled"}) = {}
<1>1. /\ TimeColumn \cap IdColumn = {}
      /\ {"status", "enabled"} \cap (TimeColumn \cup IdColumn) = {}
  BY DEF TimeColumn, IdColumn
<1>2. (DOMAIN PortalUserChecks.limit \cup DOMAIN DetailLimit)
          \cap (TimeColumn \cup IdColumn \cup {"status", "enabled"}) = {}
  BY DEF PortalUserChecks, DetailLimit, TimeColumn, IdColumn
<1>3. /\ DOMAIN PortalTokenChecks.limit
            \cap (TimeColumn \cup IdColumn \cup {"status", "enabled"}) = {}
      /\ DOMAIN PortalInviteChecks.limit
            \cap (TimeColumn \cup IdColumn \cup {"status", "enabled"}) = {}
      /\ DOMAIN PortalSignupPolicyChecks.limit
            \cap (TimeColumn \cup IdColumn \cup {"status", "enabled"}) = {}
  BY DEF PortalTokenChecks, PortalInviteChecks, PortalSignupPolicyChecks, TimeColumn, IdColumn
<1>. QED
  BY <1>1, <1>2, <1>3, RulesAreChecks DEF Kinds, Checks, Of

(* Limits are numbers.                                                     *)
LEMMA LimitsAreNumbers ==
    ASSUME NEW k \in Kinds
    PROVE  /\ \A c \in DOMAIN Checks(k).limit : Checks(k).limit[c] \in Nat
           /\ \A c \in DOMAIN DetailLimit : DetailLimit[c] \in Nat
           /\ k = "user" => \A c \in DOMAIN DetailLimit :
                /\ c \in Columns(k) /\ c \in DOMAIN Checks(k).limit
                /\ DetailLimit[c] <= Checks(k).limit[c]
                /\ c \notin Required(k)
<1>1. \A c \in DOMAIN DetailLimit : DetailLimit[c] \in Nat
  BY DEF DetailLimit
<1>2. CASE k = "user"
  BY <1>2 DEF Checks, PortalUserChecks, DetailLimit, Columns, Required, Entity, PortalUser, Of
<1>3. CASE k = "token"
  BY <1>1, <1>3 DEF Checks, PortalTokenChecks, Of
<1>4. CASE k = "invite"
  BY <1>1, <1>4 DEF Checks, PortalInviteChecks, Of
<1>5. CASE k = "policy"
  BY <1>1, <1>5 DEF Checks, PortalSignupPolicyChecks, Of
<1>. QED
  BY <1>2, <1>3, <1>4, <1>5 DEF Kinds

(* NULL is no cell of another kind.                                        *)
LEMMA NoneApart ==
    /\ \A n \in Nat, x \in Word \cup Id : <<n, x>> # None
    /\ \A i \in Id : Named(i) # None
    /\ \A x \in Word : Named(x) # None
    /\ \A n \in Nat : At(n) # None
    /\ None \notin {"generic", "verb"}
<1>1. ASSUME NEW n \in Nat, NEW x \in Word \cup Id PROVE <<n, x>> # None
  <2>1. <<n, x>> \in Nat \X (Word \cup Id)
    OBVIOUS
  <2>. QED
    BY <2>1, NoneAssumption
<1>2. "at" \in Word
  BY DEF Word
<1>. QED
  BY <1>1, <1>2, NoneAssumption DEF Named, At

(* A text that a route is given: no NULL, and no shorter in bytes than in  *)
(* characters.                                                             *)
LEMMA TextIsText ==
    ASSUME NEW k \in Kinds, NEW c, NEW v \in Text(k, c)
    PROVE  /\ v \in Nat \X Shape /\ v # None
           /\ Chars(v) \in Nat /\ Bytes(v) \in Nat /\ Chars(v) <= Bytes(v)
<1>1. Limits(k, c) \subseteq Nat
  BY RulesAreChecks, LimitsAreNumbers DEF Limits, LimitOf
<1>2. v \in Nat \X {"plain", "wide", "blank"}
  BY <1>1 DEF Text
<1>3. v \in Nat \X Shape
  BY <1>2 DEF Shape
<1>5. PICK n \in Nat, shape \in {"plain", "wide", "blank"} : v = <<n, shape>>
  BY <1>2
<1>4. v # None
  BY <1>5, NoneApart DEF Word
<1>6. v[1] = n /\ v[2] = shape
  BY <1>5
<1>7. Chars(v) = n /\ Bytes(v) \in {n, 2 * n}
  BY <1>6 DEF Chars, Bytes
<1>. QED
  BY <1>3, <1>4, <1>7

LEMMA InputIsCell ==
    ASSUME NEW k \in Kinds, NEW c PROVE Input(k, c) \subseteq Cell(k, c)
<1>1. CASE c \in TimeColumn
  BY <1>1, TimeAssumption, ColumnShapes DEF Input, Cell
<1>2. CASE c \in IdColumn
  BY <1>2, ColumnShapes DEF Input, Cell
<1>3. CASE c \in {"status", "enabled"}
  BY <1>3, ColumnShapes DEF Input, Cell
<1>4. CASE c \notin TimeColumn \cup IdColumn \cup {"status", "enabled"}
  <2>1. Input(k, c) = {None} \cup Text(k, c)
    BY <1>4 DEF Input
  <2>2. Cell(k, c) = {None} \cup (Nat \X Shape)
    BY <1>4 DEF Cell
  <2>. QED
    BY <2>1, <2>2, TextIsText
<1>. QED
  BY <1>1, <1>2, <1>3, <1>4

(* What a verb or a new row puts in.                                       *)
LEMMA Cells ==
    ASSUME NEW k \in Kinds
    PROVE  /\ \A c : None \in Cell(k, c)
           /\ \A c \in TimeColumn, t \in Nat : At(t) \in Cell(k, c)
           /\ \A c \in IdColumn, i \in Id : Named(i) \in Cell(k, c)
           /\ \A s \in Status(k) : Named(s) \in Cell(k, "status")
           /\ Named("yes") \in Cell(k, "enabled") /\ Named("no") \in Cell(k, "enabled")
           /\ \A c : c \notin TimeColumn \cup IdColumn \cup {"status", "enabled"}
                        => Cell(k, c) = {None} \cup (Nat \X Shape)
  BY ColumnShapes DEF Cell

(* A row with one column set.                                              *)
Put(r, a, x) == [r EXCEPT ![a] = x]

(* It is a row when the value is of its column.                            *)
LEMMA OneCell ==
    ASSUME NEW k, NEW r, IsRow(k, r), NEW a, NEW x, x \in Cell(k, a)
    PROVE  /\ IsRow(k, Put(r, a, x))
           /\ a \in Columns(k) => Put(r, a, x)[a] = x
           /\ \A c \in Columns(k) : c # a => Put(r, a, x)[c] = r[c]
<1>1. DOMAIN r = Columns(k)
  BY DEF IsRow
<1>. QED
  BY <1>1 DEF IsRow, Put

-----------------------------------------------------------------------------
(* Writing a row.                                                          *)

(* A write of the generic routes: what the row rules looked at and what    *)
(* was sound before make a row that fits, so that the table has nothing to *)
(* refuse.                                                                 *)
LEMMA SaveOutcome ==
    ASSUME kind \in Kinds, NEW after, IsRow(kind, after),
           \A c \in Required(kind) : after[c] # None,
           NEW looked, Satisfies(after, Checks(kind), Columns(kind) \ looked),
           Save(after, looked)
    PROVE  /\ said' \in {"ok", "refused"}
           /\ said' = "ok" => row' = after /\ RowOk(kind, after)
           /\ said' # "ok" => row' = row
<1>1. CASE ~Satisfies(after, RowRules(kind), looked)
  BY <1>1 DEF Save
<1>2. CASE Satisfies(after, RowRules(kind), looked)
  <2>1. Satisfies(after, Checks(kind), looked)
    BY <1>2, RulesAreChecks
  <2>2. Satisfies(after, Checks(kind), Columns(kind))
    BY <2>1 DEF Satisfies
  <2>3. Fits(kind, after)
    BY <2>2 DEF Fits
  <2>. QED
    BY <1>2, <2>3 DEF Save, RowOk
<1>. QED
  BY <1>1, <1>2

(* What a PUT or a PATCH may do to a stored row.                           *)
Rewritten ==
    /\ said' \in {"ok", "refused"}
    /\ RowOk(kind, row')
    /\ \A c \in Meta(kind).protected : row'[c] = row[c]

(* Whether backbone_core refuses a changed protected column or keeps what  *)
(* is stored of it.                                                        *)
LEMMA OverwriteOutcome ==
    ASSUME kind \in Kinds, RowOk(kind, row), NEW after, IsRow(kind, after),
           \A c \in Required(kind) : after[c] # None,
           Overwrite(after)
    PROVE  Rewritten
<1> DEFINE protected == {c \in Columns(kind) : c \in Meta(kind).protected}
           kept == [c \in DOMAIN after |-> IF c \in protected THEN row[c] ELSE after[c]]
           looked == {c \in Columns(kind) : kept[c] # row[c]}
<1>1. protected = Meta(kind).protected
  BY ColumnLists DEF ListsAgree
<1>2. CASE said' = "refused" /\ UNCHANGED row
  BY <1>2 DEF Rewritten
<1>3. CASE Save(kept, looked)
  <2>1. DOMAIN after = Columns(kind)
    BY DEF IsRow
  <2>2. \A c \in Columns(kind) : kept[c] = IF c \in protected THEN row[c] ELSE after[c]
    BY <2>1
  <2>3. IsRow(kind, kept)
    <3>1. kept = [c \in Columns(kind) |-> kept[c]]
      BY <2>1
    <3>2. \A c \in Columns(kind) : kept[c] \in Cell(kind, c)
      BY <2>2 DEF IsRow, RowOk
    <3>. QED
      BY <3>1, <3>2 DEF IsRow
  <2>4. \A c \in Required(kind) : kept[c] # None
    BY <2>2, ColumnLists DEF ListsAgree, RowOk, Fits
  <2>5. Satisfies(kept, Checks(kind), Columns(kind) \ looked)
    <3>1. \A c \in Columns(kind) \ looked : kept[c] = row[c]
      OBVIOUS
    <3>2. Satisfies(row, Checks(kind), Columns(kind))
      BY DEF RowOk, Fits
    <3>. QED
      BY <3>1, <3>2 DEF Satisfies
  <2>6. /\ said' \in {"ok", "refused"}
        /\ said' = "ok" => row' = kept /\ RowOk(kind, kept)
        /\ said' # "ok" => row' = row
    <3> HIDE DEF kept, looked
    <3>. QED
      BY <1>3, <2>3, <2>4, <2>5, SaveOutcome
  <2>7. \A c \in Meta(kind).protected : kept[c] = row[c]
    BY <1>1, <2>2
  <2>. QED
    BY <2>6, <2>7 DEF Rewritten
<1>. QED
  BY <1>2, <1>3 DEF Overwrite

(* A verb's write.                                                         *)
LEMMA StoreOutcome ==
    ASSUME NEW after, IsRow(kind, after), Store(after)
    PROVE  /\ said' \in {"ok", "failed"}
           /\ said' = "ok" => row' = after /\ RowOk(kind, row')
           /\ said' = "failed" => row' = row
  BY DEF Store, RowOk

-----------------------------------------------------------------------------
(* What the routes make of their bodies.                                   *)

(* A response is a row of cells, with the columns that are no secret as    *)
(* they are stored.                                                        *)
LEMMA ResponseIsRow ==
    ASSUME NEW k \in Kinds, NEW r, IsRow(k, r)
    PROVE  /\ IsRow(k, Responded(k, r))
           /\ \A c \in UpdateDto(k) : Responded(k, r)[c] = r[c]
<1>1. \A c \in Meta(k).secret : Masked \in Cell(k, c)
  <2>1. Meta(k).secret \subseteq {"token_nonce"}
    BY DEF Kinds, Meta, PortalUserMeta, PortalTokenMeta, PortalInviteMeta,
       PortalSignupPolicyMeta, Of
  <2>2. "token_nonce" \notin TimeColumn \cup IdColumn \cup {"status", "enabled"}
    BY DEF TimeColumn, IdColumn
  <2>3. Masked \in Nat \X Shape
    BY DEF Masked, Shape
  <2>. QED
    BY <2>1, <2>2, <2>3, Cells
<1>2. Responded(k, r) = [c \in Columns(k) |-> IF c \in Meta(k).secret THEN Masked ELSE r[c]]
  BY ColumnLists DEF ListsAgree, Responded
<1>3. \A c \in Columns(k) :
        Responded(k, r)[c] = IF c \in Meta(k).secret THEN Masked ELSE r[c]
  BY <1>2
<1>4. \A c \in UpdateDto(k) : c \in Columns(k) /\ c \notin Meta(k).secret
  BY ColumnLists DEF ListsAgree
<1>. QED
  BY <1>1, <1>2, <1>3, <1>4 DEF IsRow

(* A PUT that parses, over a stored row.                                   *)
LEMMA UpdatedIsRow ==
    ASSUME NEW k \in Kinds, NEW r, RowOk(k, r), NEW dto, IsRow(k, dto),
           \A c \in UpdateDto(k) \cap Required(k) : dto[c] # None
    PROVE  IsRow(k, Updated(k, r, dto)) /\ \A c \in Required(k) : Updated(k, r, dto)[c] # None
<1>1. Updated(k, r, dto) = [c \in Columns(k) |-> IF c \in UpdateDto(k) THEN dto[c] ELSE r[c]]
  BY ColumnLists DEF ListsAgree, Updated, RowOk, IsRow
<1>2. \A c \in Columns(k) : Updated(k, r, dto)[c] = IF c \in UpdateDto(k) THEN dto[c] ELSE r[c]
  BY <1>1
<1>. QED
  BY <1>1, <1>2, ColumnLists DEF ListsAgree, RowOk, IsRow, Fits

(* A PATCH body of one key.                                                *)
Body(c, v) == [key \in {c} |-> v]

(* A PATCH keeps a required column that its body has null for.             *)
LEMMA PatchedIsRow ==
    ASSUME NEW k \in Kinds, NEW r, RowOk(k, r), NEW c, NEW v \in Cell(k, c)
    PROVE  /\ IsRow(k, Patched(k, r, Body(c, v)))
           /\ \A d \in Required(k) : Patched(k, r, Body(c, v))[d] # None
<1> DEFINE after == [d \in Columns(k) |-> IF d = c /\ c \in Arms(k) /\ Takes(k, c, v)
                                          THEN v ELSE r[d]]
<1>1. Patched(k, r, Body(c, v)) = after
  BY DEF Patched, Body
<1>2. \A d \in Columns(k) : after[d] = IF d = c /\ c \in Arms(k) /\ Takes(k, c, v)
                                        THEN v ELSE r[d]
  OBVIOUS
<1>3. IsRow(k, after)
  BY <1>2 DEF IsRow, RowOk
<1>4. \A d \in Required(k) : after[d] # None
  BY <1>2, ColumnLists DEF ListsAgree, Takes, RowOk, Fits
<1>. QED
  BY <1>1, <1>3, <1>4

(* The columns of a new row before anybody set one: cells, but for the     *)
(* status, which the verbs of each kind set or keep.                       *)
Blanks(k, r) ==
    /\ r = [c \in Columns(k) |-> r[c]]
    /\ \A c \in Columns(k) \ {"status"} : r[c] \in Cell(k, c)

(* What an insert names is of its columns.                                 *)
LEMMA PlainCells ==
    ASSUME NEW k \in Kinds, now \in Nat
    PROVE  /\ Blanks(k, Plain(k))
           /\ k \in {"user", "token"} => IsRow(k, Plain(k))
<1> DEFINE value(c) == CASE c \in {"email", "recipient_email"} -> <<3, "plain">>
                         [] c = "user_id" -> Named(CHOOSE i \in Id : TRUE)
                         [] c = "token_nonce" -> Fresh
                         [] c = "token_expires_at" -> At(now + Ttl)
                         [] c = "enabled" -> Named("no")
                         [] c = "status" -> Named("active")
                         [] OTHER -> None
<1>1. Plain(k) = [c \in Columns(k) |-> value(c)]
  BY DEF Plain
<1>2. (CHOOSE i \in Id : TRUE) \in Id
  BY IdAssumption
<1>3. now + Ttl \in Nat
  BY TimeAssumption
<1>4. ASSUME NEW c, c # "status" PROVE value(c) \in Cell(k, c)
  <2>1. CASE c \in {"email", "recipient_email", "token_nonce"}
    <3>1. c \notin TimeColumn \cup IdColumn \cup {"status", "enabled"}
      BY <2>1 DEF TimeColumn, IdColumn
    <3>2. value(c) \in Nat \X Shape
      BY <2>1 DEF Fresh, Shape
    <3>. QED
      BY <3>1, <3>2, Cells
  <2>2. CASE c = "user_id"
    BY <1>2, <2>2, Cells DEF IdColumn
  <2>3. CASE c = "token_expires_at"
    BY <1>3, <2>3, Cells DEF TimeColumn
  <2>4. CASE c = "enabled"
    BY <2>4, Cells
  <2>5. CASE c \notin {"email", "recipient_email", "user_id", "token_nonce", "token_expires_at",
                       "enabled", "status"}
    BY <2>5, Cells
  <2>. QED
    BY <1>4, <2>1, <2>2, <2>3, <2>4, <2>5
<1>5. Blanks(k, Plain(k))
  <2> HIDE DEF value
  <2>. QED
    BY <1>1, <1>4 DEF Blanks
<1>6. ASSUME k \in {"user", "token"} PROVE IsRow(k, Plain(k))
  <2>1. value("status") \in Cell(k, "status")
    BY <1>6, Cells DEF Status
  <2> HIDE DEF value
  <2>. QED
    BY <1>1, <1>4, <2>1 DEF IsRow
<1>. QED
  BY <1>5, <1>6

(* A POST, one column anything.                                            *)
LEMMA CreatedIsRow ==
    ASSUME NEW k \in Kinds, NEW dto, Blanks(k, dto),
           \A c \in CreateDto(k) \cap Required(k) : dto[c] # None
    PROVE  /\ IsRow(k, Created(k, dto))
           /\ \A c \in Required(k) : Created(k, dto)[c] # None
           /\ k # "policy" => Created(k, dto)["status"] = Named(From(k).birth)
<1> DEFINE after == [c \in Columns(k) |-> IF c \in CreateDto(k) THEN dto[c] ELSE Named(From(k).birth)]
<1>1. Created(k, dto) = after
  BY ColumnLists DEF ListsAgree, Created
<1>2. \A c \in Columns(k) : after[c] = IF c \in CreateDto(k) THEN dto[c] ELSE Named(From(k).birth)
  OBVIOUS
<1>3. CASE k = "policy"
  <2>1. CreateDto(k) = Columns(k) /\ "status" \notin Columns(k)
    BY <1>3, ColumnLists, StatusProtected DEF ListsAgree
  <2>2. \A c \in Columns(k) : after[c] = dto[c] /\ after[c] \in Cell(k, c)
    BY <1>2, <2>1 DEF Blanks
  <2>3. \A c \in Required(k) : after[c] # None
    BY <2>1, <2>2, ColumnLists DEF ListsAgree
  <2>. QED
    BY <1>1, <1>3, <2>2, <2>3 DEF IsRow
<1>4. CASE k # "policy"
  <2>1. CreateDto(k) = Columns(k) \ {"status"} /\ "status" \in Columns(k)
    BY <1>4, ColumnLists, StatusProtected DEF ListsAgree
  <2>2. Named(From(k).birth) \in Cell(k, "status") /\ Named(From(k).birth) # None
    <3>1. From(k).birth \in Status(k) /\ From(k).birth \in Word
      BY <1>4, BirthIsStatus
    <3>. QED
      BY <3>1, Cells, NoneApart
  <2>3. \A c \in Columns(k) : after[c] \in Cell(k, c)
    BY <1>2, <2>1, <2>2 DEF Blanks
  <2>4. \A c \in Required(k) : after[c] # None
    BY <1>2, <2>1, <2>2, ColumnLists DEF ListsAgree
  <2>5. after["status"] = Named(From(k).birth)
    BY <1>2, <2>1
  <2>. QED
    BY <1>1, <2>3, <2>4, <2>5 DEF IsRow
<1>. QED
  BY <1>3, <1>4

-----------------------------------------------------------------------------
(* The invariant.  A stored row is a row that fits its table, somebody has *)
(* inserted it, and a principal that a generic route inserted has not been *)
(* admitted since; no validated write was ever refused by the table.       *)

OfficeInv ==
    /\ OTypeOK
    /\ row # None => RowOk(kind, row) /\ born # None
    /\ form # None => IsRow(kind, form)
    /\ row # None /\ kind = "user" /\ born = "generic"
          => row.status \in {Named("invited"), Named("revoked")}
    /\ said # "tripped"

(* What a step does to the status of a row that stays.                     *)
StatusMove ==
    row # None /\ row' # None /\ kind # "policy" /\ row'.status # row.status
        => <<row.status[2], row'.status[2]>> \in Edge(kind)

(* What every step leaves alone: the kind, and where it touches the row    *)
(* and the form, what makes them sound.                                    *)
LEMMA Frame ==
    ASSUME OfficeInv, kind' = kind, gone' \in BOOLEAN,
           now' \in 0..MaxTime, writes' \in 0..MaxWrites, said' \in {"ok", "refused", "failed"},
           form' \in {form, None} \/ IsRow(kind, form'),
           born' \in {None, "generic", "verb"},
           row' # None => RowOk(kind, row') /\ born' # None,
           row' # None /\ kind = "user" /\ born' = "generic"
              => row'.status \in {Named("invited"), Named("revoked")},
           link' # None => kind \in {"token", "invite"} /\ born' = "verb"
    PROVE  OfficeInv'
<1>1. \A r \in {row', form'} \ {None} : DOMAIN r = Columns(kind)
  BY DEF OfficeInv, RowOk, IsRow
<1>2. row' # None => \A c \in Required(kind) : row'[c] # None
  BY DEF RowOk, Fits
<1>3. OTypeOK'
  BY <1>1, <1>2 DEF OfficeInv, OTypeOK
<1>4. form' # None => IsRow(kind, form')
  BY DEF OfficeInv
<1>5. row' # None => RowOk(kind', row') /\ born' # None
  OBVIOUS
<1>. QED
  BY <1>3, <1>4, <1>5 DEF OfficeInv

(* What every step lemma needs of the invariant.                           *)
LEMMA Known ==
    ASSUME OfficeInv
    PROVE  /\ kind \in Kinds /\ now \in Nat /\ now \in 0..MaxTime
           /\ gone \in BOOLEAN /\ writes \in 0..MaxWrites
           /\ born \in {None, "generic", "verb"} /\ said \in {"ok", "refused", "failed"}
           /\ link # None => kind \in {"token", "invite"} /\ born = "verb"
           /\ Generic => writes' \in 0..MaxWrites
  BY KindAssumption, TimeAssumption DEF OfficeInv, OTypeOK, Generic

-----------------------------------------------------------------------------
(* The generic routes.                                                     *)

(* A POST: the new row satisfies its row rules on all columns, so it fits. *)
LEMMA CreateStep == ASSUME OfficeInv, Create PROVE OfficeInv' /\ StatusMove
<1>1. row = None /\ link = None
  BY Known, NoneApart DEF Create, OfficeInv
<1>2. PICK c, v, dto :
        /\ c \in CreateDto(kind) /\ v \in Input(kind, c)
        /\ dto = [Plain(kind) EXCEPT ![c] = v]
        /\ IF Parses(dto, CreateDto(kind)) THEN Save(Created(kind, dto), Columns(kind))
           ELSE said' = "refused" /\ UNCHANGED row
  BY DEF Create
<1>3. Blanks(kind, dto)
  <2>1. v \in Cell(kind, c) /\ c \in Columns(kind)
    BY <1>2, Known, InputIsCell, ColumnLists DEF ListsAgree
  <2>2. DOMAIN Plain(kind) = Columns(kind)
    BY DEF Plain
  <2>. QED
    BY <1>2, <2>1, <2>2, Known, PlainCells DEF Blanks
<1>4. CASE ~Parses(dto, CreateDto(kind))
  <2>1. said' = "refused" /\ row' = None /\ born' = None
    BY <1>1, <1>2, <1>4 DEF Create
  <2>. QED
    BY <1>1, <2>1, Known, Frame DEF Create, Keep, Generic, StatusMove
<1>5. CASE Parses(dto, CreateDto(kind))
  <2>1. \A d \in CreateDto(kind) \cap Required(kind) : dto[d] # None
    BY <1>5 DEF Parses
  <2>2. /\ IsRow(kind, Created(kind, dto))
        /\ \A d \in Required(kind) : Created(kind, dto)[d] # None
        /\ kind # "policy" => Created(kind, dto)["status"] = Named(From(kind).birth)
    BY <1>3, <2>1, Known, CreatedIsRow
  <2>3. Satisfies(Created(kind, dto), Checks(kind), Columns(kind) \ Columns(kind))
    BY DEF Satisfies
  <2>4. Save(Created(kind, dto), Columns(kind))
    BY <1>2, <1>5
  <2>5. /\ said' \in {"ok", "refused"}
        /\ said' = "ok" => row' = Created(kind, dto) /\ RowOk(kind, row')
        /\ said' # "ok" => row' = None
    BY <1>1, <2>2, <2>3, <2>4, Known, SaveOutcome
  <2>6. born' = IF said' = "ok" THEN "generic" ELSE None
    BY DEF Create
  <2>7. kind = "user" /\ said' = "ok" => row'.status = Named("invited")
    BY <2>2, <2>5 DEF From, PortalUserFrom, Of
  <2>8. row' # None => said' = "ok"
    BY <2>5
  <2>. QED
    BY <1>1, <2>5, <2>6, <2>7, <2>8, Known, NoneApart, Frame DEF Create, Keep, Generic, StatusMove
<1>. QED
  BY <1>4, <1>5

(* A form is a row, with a masked nonce.                                   *)
LEMMA ReadStep == ASSUME OfficeInv, Read PROVE OfficeInv' /\ StatusMove
<1>1. IsRow(kind, form')
  BY Known, ResponseIsRow DEF Read, Stored, OfficeInv, RowOk
<1>2. UNCHANGED <<kind, row, gone, born, link, now, said, writes>>
  BY DEF Read
<1>3. StatusMove
  BY <1>2 DEF StatusMove
<1>. QED
  BY <1>1, <1>2, <1>3, Known, Frame DEF OfficeInv

(* A protected status stays what it is.                                    *)
LEMMA RewrittenStep ==
    ASSUME OfficeInv, row # None, Rewritten, Generic, form' \in {form, None},
           UNCHANGED <<gone, born, link>>
    PROVE  OfficeInv' /\ StatusMove
<1>1. kind # "policy" => row'.status = row.status
  BY Known, StatusProtected DEF Rewritten
<1>2. StatusMove
  BY <1>1 DEF StatusMove
<1>3. row' # None => RowOk(kind, row') /\ born' # None
  BY DEF Rewritten, OfficeInv
<1>4. kind' = kind /\ now' = now
  BY DEF Generic, Keep
<1>. QED
  BY <1>1, <1>2, <1>3, <1>4, Known, Frame DEF Rewritten, OfficeInv

(* A PUT of a form read before whatever has happened since.                *)
LEMMA UpdateStep == ASSUME OfficeInv, Update PROVE OfficeInv' /\ StatusMove
<1>1. /\ Generic /\ row # None /\ form # None /\ form' = None
      /\ UNCHANGED <<gone, born, link>>
  BY DEF Update, Stored
<1>2. PICK c, v, dto :
        /\ c \in UpdateDto(kind) /\ v \in Input(kind, c) \cup {form[c]}
        /\ dto = [form EXCEPT ![c] = v]
        /\ IF Parses(dto, UpdateDto(kind)) THEN Overwrite(Updated(kind, row, dto))
           ELSE said' = "refused" /\ UNCHANGED row
  BY DEF Update
<1>3. RowOk(kind, row) /\ IsRow(kind, form)
  BY <1>1 DEF OfficeInv
<1>4. IsRow(kind, dto)
  <2>1. v \in Cell(kind, c)
    BY <1>2, <1>3, Known, InputIsCell, ColumnLists DEF ListsAgree, IsRow
  <2>2. dto = Put(form, c, v)
    BY <1>2 DEF Put
  <2>. QED
    BY <1>3, <2>1, <2>2, OneCell
<1>5. CASE ~Parses(dto, UpdateDto(kind))
  <2>1. Rewritten
    BY <1>2, <1>3, <1>5 DEF Rewritten
  <2>. QED
    BY <1>1, <2>1, RewrittenStep
<1>6. CASE Parses(dto, UpdateDto(kind))
  <2>1. \A d \in UpdateDto(kind) \cap Required(kind) : dto[d] # None
    BY <1>6 DEF Parses
  <2>2. Rewritten
    BY <1>2, <1>3, <1>4, <1>6, <2>1, Known, UpdatedIsRow, OverwriteOutcome
  <2>. QED
    BY <1>1, <2>2, RewrittenStep
<1>. QED
  BY <1>5, <1>6

(* A PATCH of one key, a column or not.                                    *)
LEMMA PatchStep == ASSUME OfficeInv, Patch PROVE OfficeInv' /\ StatusMove
<1>1. Generic /\ row # None /\ form' = form /\ UNCHANGED <<gone, born, link>>
  BY DEF Patch, Stored
<1>2. PICK c, v : v \in Input(kind, c) /\ Overwrite(Patched(kind, row, Body(c, v)))
  BY DEF Patch, Body
<1>3. RowOk(kind, row) /\ v \in Cell(kind, c)
  BY <1>1, <1>2, Known, InputIsCell DEF OfficeInv
<1>4. PICK after : after = Patched(kind, row, Body(c, v))
  OBVIOUS
<1>5. IsRow(kind, after) /\ \A d \in Required(kind) : after[d] # None
  BY <1>3, <1>4, Known, PatchedIsRow
<1>6. Rewritten
  BY <1>2, <1>3, <1>4, <1>5, Known, OverwriteOutcome
<1>. QED
  BY <1>1, <1>6, RewrittenStep

(* Trash, restore and purge touch no column.                               *)
LEMMA TrashStep == ASSUME OfficeInv, Trash \/ Untrash \/ Purge PROVE OfficeInv' /\ StatusMove
<1>1. /\ gone' \in BOOLEAN /\ said' = "ok" /\ (row' = row \/ row' = None)
      /\ UNCHANGED <<kind, now, born, form, link, writes>>
  BY DEF Trash, Untrash, Purge, Keep
<1>2. StatusMove
  BY <1>1 DEF StatusMove
<1>3. row' # None => row' = row
  BY <1>1
<1>. QED
  BY <1>1, <1>2, <1>3, Known, Frame DEF OfficeInv

-----------------------------------------------------------------------------
(* The verbs.                                                              *)

(* The columns a verb sets, by the kind of their value.                    *)
LEMMA VerbColumns ==
    ASSUME NEW k \in Kinds
    PROVE  /\ {"revoked_at", "rotated_at", "last_used_at", "redeemed_at", "last_login_at",
               "token_expires_at"} \subseteq TimeColumn
           /\ {"rotated_to", "redeemed_by", "sapiens_user_id", "updated_by", "user_id"}
                  \subseteq IdColumn
           /\ {"revocation_reason", "recipient_email", "email", "note", "token_nonce"}
                  \cap (TimeColumn \cup IdColumn \cup {"status", "enabled"}) = {}
           /\ k # "policy" => /\ "revoked" \in Status(k)
                              /\ {"status", "revoked_at", "revocation_reason"} \subseteq Columns(k)
  BY DEF TimeColumn, IdColumn, Kinds, Status, Columns, Entity, PortalUser, PortalToken,
     PortalInvite, Of

(* A stored status is one of its kind.                                     *)
LEMMA StatusCell ==
    ASSUME NEW k \in Kinds, k # "policy", NEW r, RowOk(k, r)
    PROVE  r.status \in {Named(s) : s \in Status(k)}
<1>1. "status" \in Columns(k) \cap Required(k)
  BY StatusProtected
<1>2. r["status"] \in Cell(k, "status") /\ r["status"] # None
  BY <1>1 DEF RowOk, IsRow, Fits
<1>3. Cell(k, "status") = {None} \cup {Named(s) : s \in Status(k)}
  BY ColumnShapes DEF Cell
<1>. QED
  BY <1>2, <1>3

(* A verb's write of a stored row: it leaves the status, or takes an edge. *)
Along(after) ==
    \/ after.status = row.status
    \/ /\ <<row.status[2], after.status[2]>> \in Edge(kind)
       /\ kind = "user" => after.status = Named("revoked")

(* Such a write keeps the invariant, whether the table takes it or not.    *)
LEMMA VerbStep ==
    ASSUME OfficeInv, row # None, kind # "policy", Verb,
           NEW after, IsRow(kind, after), Along(after), Store(after)
    PROVE  OfficeInv' /\ StatusMove
<1>1. /\ said' \in {"ok", "failed"}
      /\ said' = "ok" => row' = after /\ RowOk(kind, row')
      /\ said' = "failed" => row' = row
  BY StoreOutcome
<1>2. UNCHANGED <<kind, gone, born, form, link, now, writes>>
  BY DEF Verb
<1>3. StatusMove
  BY <1>1 DEF StatusMove, Along
<1>4. row' # None => RowOk(kind, row') /\ born' # None
  BY <1>1, <1>2 DEF OfficeInv
<1>5. row' # None /\ kind = "user" /\ born' = "generic"
        => row'.status \in {Named("invited"), Named("revoked")}
  BY <1>1, <1>2 DEF Along, OfficeInv
<1>. QED
  BY <1>1, <1>2, <1>3, <1>4, <1>5, Known, Frame

(* One column that is not the status.                                      *)
LEMMA MarkIsRow ==
    ASSUME NEW k \in Kinds, k # "policy", NEW r, IsRow(k, r),
           NEW a, a # "status", NEW x \in Cell(k, a)
    PROVE  IsRow(k, Put(r, a, x)) /\ Put(r, a, x).status = r.status
<1>1. "status" \in Columns(k)
  BY StatusProtected
<1>. QED
  BY <1>1, OneCell

(* A verb that leaves the status and sets one column.                      *)
LEMMA MarkStep ==
    ASSUME OfficeInv, row # None, kind # "policy", Verb,
           NEW a, a # "status", NEW x \in Cell(kind, a), Store(Put(row, a, x))
    PROVE  OfficeInv' /\ StatusMove
<1>1. PICK after : after = Put(row, a, x)
  OBVIOUS
<1>2. IsRow(kind, row)
  BY DEF OfficeInv, RowOk
<1>3. IsRow(kind, after) /\ after.status = row.status
  BY <1>1, <1>2, Known, MarkIsRow
<1>. QED
  BY <1>1, <1>3, VerbStep DEF Along

(* The status along an edge, and two columns more.                         *)
LEMMA MoveStep ==
    ASSUME OfficeInv, row # None, kind # "policy", Verb,
           NEW s \in Status(kind), <<row.status[2], s>> \in Edge(kind),
           kind = "user" => s = "revoked",
           NEW a, a # "status", NEW x \in Cell(kind, a),
           NEW b, b # "status", NEW y \in Cell(kind, b),
           Store(Put(Put(Put(row, "status", Named(s)), a, x), b, y))
    PROVE  OfficeInv' /\ StatusMove
<1>1. PICK r : r = Put(row, "status", Named(s))
  OBVIOUS
<1>2. PICK t : t = Put(r, a, x)
  OBVIOUS
<1>3. PICK after : after = Put(t, b, y)
  OBVIOUS
<1>4. IsRow(kind, r) /\ r.status = Named(s)
  <2>1. Named(s) \in Cell(kind, "status") /\ "status" \in Columns(kind) /\ IsRow(kind, row)
    BY Known, Cells, StatusProtected DEF OfficeInv, RowOk
  <2>. QED
    BY <1>1, <2>1, OneCell
<1>5. IsRow(kind, t) /\ t.status = Named(s)
  BY <1>2, <1>4, Known, MarkIsRow
<1>6. IsRow(kind, after) /\ after.status = Named(s)
  BY <1>3, <1>5, Known, MarkIsRow
<1>7. Named(s)[2] = s
  BY DEF Named
<1>8. Along(after)
  BY <1>6, <1>7 DEF Along
<1>. QED
  BY <1>1, <1>2, <1>3, <1>6, <1>8, VerbStep

(* A revocation, with a reason of any length.                              *)
LEMMA RevokeStep == ASSUME OfficeInv, Revoke PROVE OfficeInv' /\ StatusMove
<1>1. kind # "policy" /\ row # None /\ Verb
  BY DEF Revoke, Revocable
<1>2. PICK why \in Text(kind, "revocation_reason") :
        Store([row EXCEPT !.status = Named("revoked"), !.revoked_at = At(now),
                          !.revocation_reason = why])
  BY DEF Revoke
<1>3. Store(Put(Put(Put(row, "status", Named("revoked")), "revoked_at", At(now)),
                "revocation_reason", why))
  BY <1>2 DEF Put
<1>4. /\ "revoked" \in Status(kind)
      /\ At(now) \in Cell(kind, "revoked_at")
      /\ why \in Cell(kind, "revocation_reason")
  BY <1>1, Known, VerbColumns, Cells, TextIsText
<1>5. <<row.status[2], "revoked">> \in Edge(kind)
  <2>1. PICK s \in Status(kind) : row.status = Named(s)
    BY <1>1, Known, StatusCell DEF OfficeInv
  <2>2. CASE kind = "user"
    BY <2>1, <2>2 DEF Revoke, Revocable, Status, Edge, Named
  <2>3. CASE kind = "token"
    BY <2>1, <2>3 DEF Revoke, Revocable, Status, Edge, Named
  <2>4. CASE kind = "invite"
    BY <2>1, <2>4 DEF Revoke, Revocable, Status, Edge, Named
  <2>. QED
    BY <1>1, <2>2, <2>3, <2>4, Known DEF Kinds
<1>. QED
  BY <1>1, <1>3, <1>4, <1>5, MoveStep

(* A rotated token names its successor.                                    *)
LEMMA RotateStep == ASSUME OfficeInv, Rotate PROVE OfficeInv' /\ StatusMove
<1>1. kind = "token" /\ row # None /\ row.status = Named("active") /\ Verb
  BY DEF Rotate, Accepts, Usable
<1>2. PICK successor \in Id :
        Store([row EXCEPT !.status = Named("rotated"), !.rotated_at = At(now),
                          !.rotated_to = Named(successor)])
  BY DEF Rotate
<1>3. Store(Put(Put(Put(row, "status", Named("rotated")), "rotated_at", At(now)),
                "rotated_to", Named(successor)))
  BY <1>2 DEF Put
<1>4. At(now) \in Cell(kind, "rotated_at") /\ Named(successor) \in Cell(kind, "rotated_to")
  BY Known, VerbColumns, Cells
<1>5. "rotated" \in Status(kind) /\ <<row.status[2], "rotated">> \in Edge(kind)
  BY <1>1 DEF Status, Edge, Named
<1>. QED
  BY <1>1, <1>3, <1>4, <1>5, MoveStep

(* A redeemed invitation names its principal.                              *)
LEMMA RedeemStep == ASSUME OfficeInv, Redeem PROVE OfficeInv' /\ StatusMove
<1>1. kind = "invite" /\ row # None /\ row.status = Named("pending") /\ Verb
  BY DEF Redeem, Accepts, Usable
<1>2. PICK principal \in Id :
        Store([row EXCEPT !.status = Named("redeemed"), !.redeemed_at = At(now),
                          !.redeemed_by = Named(principal)])
  BY DEF Redeem
<1>3. Store(Put(Put(Put(row, "status", Named("redeemed")), "redeemed_at", At(now)),
                "redeemed_by", Named(principal)))
  BY <1>2 DEF Put
<1>4. At(now) \in Cell(kind, "redeemed_at") /\ Named(principal) \in Cell(kind, "redeemed_by")
  BY Known, VerbColumns, Cells
<1>5. "redeemed" \in Status(kind) /\ <<row.status[2], "redeemed">> \in Edge(kind)
  BY <1>1 DEF Status, Edge, Named
<1>. QED
  BY <1>1, <1>3, <1>4, <1>5, MoveStep

(* The sweep of expired invitations.                                       *)
LEMMA SweepStep == ASSUME OfficeInv, SweepExpired PROVE OfficeInv' /\ StatusMove
<1>1. kind = "invite" /\ row # None /\ row.status = Named("pending") /\ Verb
  BY DEF SweepExpired
<1>2. PICK after : after = Put(row, "status", Named("expired")) /\ Store(after)
  BY DEF SweepExpired, Put
<1>3. "expired" \in Status(kind) /\ <<"pending", "expired">> \in Edge(kind)
  BY <1>1 DEF Status, Edge
<1>4. IsRow(kind, after) /\ after.status = Named("expired")
  <2>1. /\ Named("expired") \in Cell(kind, "status") /\ "status" \in Columns(kind)
        /\ IsRow(kind, row)
    BY <1>1, <1>3, Known, Cells, StatusProtected DEF OfficeInv, RowOk
  <2>. QED
    BY <1>2, <2>1, OneCell
<1>5. Along(after)
  BY <1>1, <1>3, <1>4 DEF Along, Named
<1>. QED
  BY <1>1, <1>2, <1>4, <1>5, VerbStep

(* The mark of a bearer check.                                             *)
LEMMA TouchStep == ASSUME OfficeInv, Touch PROVE OfficeInv' /\ StatusMove
<1>1. kind = "token" /\ row # None /\ Verb
  BY DEF Touch, Accepts
<1>2. Store(Put(row, "last_used_at", At(now))) /\ At(now) \in Cell(kind, "last_used_at")
  BY Known, VerbColumns, Cells DEF Touch, Put
<1>. QED
  BY <1>1, <1>2, MarkStep

(* The mark of a sign-in.                                                  *)
LEMMA LoginStep == ASSUME OfficeInv, Login PROVE OfficeInv' /\ StatusMove
<1>1. kind = "user" /\ row # None /\ Verb
  BY DEF Login, Stored
<1>2. Store(Put(row, "last_login_at", At(now))) /\ At(now) \in Cell(kind, "last_login_at")
  BY Known, VerbColumns, Cells DEF Login, Put
<1>. QED
  BY <1>1, <1>2, MarkStep

(* The identity of an onboarding envelope.                                 *)
LEMMA OnboardStep == ASSUME OfficeInv, Onboard PROVE OfficeInv' /\ StatusMove
<1>1. kind = "user" /\ row # None /\ Verb
  BY DEF Onboard, Stored
<1>2. PICK i \in Id : Store(Put(row, "sapiens_user_id", Named(i)))
  BY DEF Onboard, Put
<1>3. Named(i) \in Cell(kind, "sapiens_user_id")
  BY Known, VerbColumns, Cells
<1>. QED
  BY <1>1, <1>2, <1>3, MarkStep

-----------------------------------------------------------------------------
(* The inserts.                                                            *)

(* What an insert names, with room in every limit it meets.                *)
LEMMA PlainFits ==
    ASSUME NEW k \in {"user", "token"}, now \in Nat PROVE Fits(k, Plain(k))
<1>1. PICK i \in Id : i = CHOOSE j \in Id : TRUE
  BY IdAssumption
<1>2. Named(i) # None /\ ~Blank(Named(i))
  BY NoneApart, IdAssumption DEF Named, Blank, Word
<1>3. Fresh # None /\ ~Blank(Fresh) /\ Chars(Fresh) = 32
  BY NoneApart DEF Fresh, Blank, Chars, Word
<1>4. <<3, "plain">> # None /\ ~Blank(<<3, "plain">>) /\ Chars(<<3, "plain">>) = 3
  BY NoneApart DEF Blank, Chars, Word
<1>5. Named("active") # None /\ At(now + Ttl) # None
  BY NoneApart, TimeAssumption DEF Word
<1>6. CASE k = "user"
  <2>1. /\ Plain(k)["email"] = <<3, "plain">> /\ Plain(k)["status"] = Named("active")
        /\ \A c \in Columns(k) \ {"email", "status"} : Plain(k)[c] = None
    BY <1>6 DEF Plain, Columns, Entity, PortalUser, Of
  <2>2. Required(k) = {"email", "status"} /\ Checks(k).required = {"email"}
    BY <1>6 DEF Required, Entity, PortalUser, Checks, PortalUserChecks, Of
  <2>3. "status" \notin DOMAIN Checks(k).limit /\ Checks(k).limit["email"] = 320
    BY <1>6 DEF Checks, PortalUserChecks, Of
  <2>. QED
    BY <1>4, <1>5, <2>1, <2>2, <2>3 DEF Fits, Satisfies
<1>7. CASE k = "token"
  <2>1. /\ Plain(k)["user_id"] = Named(i) /\ Plain(k)["token_nonce"] = Fresh
        /\ Plain(k)["token_expires_at"] = At(now + Ttl)
        /\ Plain(k)["status"] = Named("active")
        /\ \A c \in Columns(k) \ {"user_id", "token_nonce", "token_expires_at", "status"} :
              Plain(k)[c] = None
    BY <1>1, <1>7 DEF Plain, Columns, Entity, PortalToken, Of
  <2>2. /\ Required(k) = {"user_id", "token_nonce", "token_expires_at", "status"}
        /\ Checks(k).required = {"user_id", "token_nonce"}
    BY <1>7 DEF Required, Entity, PortalToken, Checks, PortalTokenChecks, Of
  <2>3. /\ DOMAIN Checks(k).limit = {"token_nonce", "revocation_reason"}
        /\ Checks(k).limit["token_nonce"] = 64
    BY <1>7 DEF Checks, PortalTokenChecks, Of
  <2>. QED
    <3>1. \A c \in Required(k) : Plain(k)[c] # None
      BY <1>2, <1>3, <1>5, <2>1, <2>2
    <3>2. \A c \in Checks(k).required : ~Blank(Plain(k)[c])
      BY <1>2, <1>3, <2>1, <2>2
    <3>3. \A c \in Columns(k) \cap DOMAIN Checks(k).limit :
            Plain(k)[c] # None => Chars(Plain(k)[c]) <= Checks(k).limit[c]
      BY <1>3, <2>1, <2>3
    <3>. QED
      BY <3>1, <3>2, <3>3, <2>2 DEF Fits, Satisfies
<1>. QED
  BY <1>6, <1>7

(* A principal inserted, whose address the table may refuse.               *)
LEMMA AdmitStep == ASSUME OfficeInv, Admit PROVE OfficeInv' /\ StatusMove
<1>1. /\ kind = "user" /\ row = None /\ link = None
      /\ born' = IF said' = "ok" THEN "verb" ELSE None
      /\ UNCHANGED <<kind, gone, form, link, now, writes>>
  BY Known, NoneApart DEF Admit, OfficeInv
<1>2. PICK email, new :
        /\ email \in {<<3, "plain">>, <<PortalUserChecks.limit.email + 1, "plain">>}
        /\ new = Put(Plain("user"), "email", email)
        /\ Store(new)
  BY DEF Admit, Put
<1>3. IsRow(kind, new)
  <2>1. email \in Cell(kind, "email")
    <3>1. PortalUserChecks.limit.email = 320
      BY DEF PortalUserChecks
    <3>2. email \in Nat \X Shape
      BY <1>2, <3>1 DEF Shape
    <3>. QED
      BY <3>2, Known, VerbColumns, Cells
  <2>. QED
    BY <1>1, <1>2, <2>1, Known, PlainCells, OneCell
<1>4. /\ said' \in {"ok", "failed"}
      /\ said' = "ok" => RowOk(kind, row')
      /\ said' = "failed" => row' = None
  BY <1>1, <1>2, <1>3, StoreOutcome
<1>5. row' # None => RowOk(kind, row') /\ born' = "verb"
  BY <1>1, <1>4
<1>6. StatusMove
  BY <1>1 DEF StatusMove
<1>. QED
  BY <1>1, <1>4, <1>5, <1>6, Known, NoneApart, Frame

(* A token inserted by its verb.                                           *)
LEMMA MintBearerStep == ASSUME OfficeInv, MintBearer PROVE OfficeInv' /\ StatusMove
<1>1. /\ kind = "token" /\ row = None
      /\ row' = Plain(kind) /\ born' = "verb" /\ said' = "ok"
      /\ UNCHANGED <<kind, gone, form, now, writes>>
  BY Known, NoneApart DEF MintBearer, OfficeInv
<1>2. RowOk(kind, row')
  BY <1>1, Known, PlainCells, PlainFits DEF RowOk
<1>3. StatusMove
  BY <1>1 DEF StatusMove
<1>. QED
  BY <1>1, <1>2, <1>3, Known, NoneApart, Frame

(* The address is checked in bytes, which are no fewer than its            *)
(* characters; the rest of an invitation is the server's own.              *)
LEMMA MintStep == ASSUME OfficeInv, Mint PROVE OfficeInv' /\ StatusMove
<1>1. kind = "invite" /\ row = None /\ link = None /\ UNCHANGED <<kind, gone, form, now, writes>>
  BY Known, NoneApart DEF Mint, OfficeInv
<1>2. PICK e, new :
        /\ e \in {<<3, "plain">>} \cup (Input("invite", "recipient_email") \ {None})
        /\ new = [Plain("invite") EXCEPT !.recipient_email = e, !.status = Named("pending")]
        /\ IF Blank(e) \/ Bytes(e) > 320
           THEN said' = "refused" /\ UNCHANGED <<row, born, link>>
           ELSE IF ~Fits("invite", new)
           THEN said' = "tripped" /\ UNCHANGED <<row, born, link>>
           ELSE /\ said' = "ok" /\ row' = new /\ born' = "verb"
                /\ link' = LinkOf("invite", new)
  BY DEF Mint
<1>3. CASE Blank(e) \/ Bytes(e) > 320
  <2>1. said' = "refused" /\ UNCHANGED <<row, born, link>>
    BY <1>2, <1>3
  <2>. QED
    BY <1>1, <2>1, Known, Frame DEF OfficeInv, StatusMove
<1>4. CASE ~Blank(e) /\ ~(Bytes(e) > 320)
  <2>1. e \in Nat \X Shape /\ e # None /\ Chars(e) \in Nat /\ Chars(e) <= 320
    <3>1. CASE e = <<3, "plain">>
      BY <3>1, NoneApart DEF Shape, Chars, Word
    <3>2. CASE e \in Input("invite", "recipient_email") \ {None}
      <4>1. e \in Text("invite", "recipient_email")
        BY <3>2, VerbColumns DEF Input, Kinds
      <4>. QED
        BY <1>4, <4>1, TextIsText DEF Kinds
    <3>. QED
      BY <1>2, <3>1, <3>2
  <2>2. /\ new["recipient_email"] = e /\ new["status"] = Named("pending")
        /\ new["token_nonce"] = Fresh /\ new["token_expires_at"] = At(now + Ttl)
        /\ \A c \in Columns(kind) \ {"recipient_email", "token_nonce", "token_expires_at",
                                     "status"} : new[c] = None
    BY <1>1, <1>2 DEF Plain, Columns, Entity, PortalInvite, Of
  <2>3. /\ Fresh \in Nat \X Shape /\ Fresh # None /\ ~Blank(Fresh) /\ Chars(Fresh) = 32
    BY NoneApart DEF Fresh, Shape, Blank, Chars, Word
  <2>4. Named("pending") # None /\ At(now + Ttl) # None /\ now + Ttl \in Nat
    BY Known, NoneApart, TimeAssumption DEF Word
  <2>5. IsRow(kind, new)
    <3>1. new = [c \in Columns(kind) |-> new[c]]
      <4>1. PICK p : p = Plain(kind)
        OBVIOUS
      <4>2. p = [c \in Columns(kind) |-> p[c]]
        BY <4>1, Known, PlainCells DEF Blanks
      <4>. QED
        BY <1>1, <1>2, <4>1, <4>2
    <3>2. /\ e \in Cell(kind, "recipient_email") /\ Fresh \in Cell(kind, "token_nonce")
          /\ At(now + Ttl) \in Cell(kind, "token_expires_at")
          /\ Named("pending") \in Cell(kind, "status")
      BY <1>1, <2>1, <2>3, <2>4, Known, Cells, VerbColumns DEF Status
    <3>3. \A c \in Columns(kind) : new[c] \in Cell(kind, c)
      BY <2>2, <3>2, Known, Cells
    <3>. QED
      BY <3>1, <3>3 DEF IsRow
  <2>6. Fits(kind, new)
    <3>1. /\ Required(kind) = {"recipient_email", "token_nonce", "token_expires_at", "status"}
          /\ Checks(kind).required = {"recipient_email", "token_nonce"}
          /\ DOMAIN Checks(kind).limit = {"recipient_email", "token_nonce", "revocation_reason"}
          /\ Checks(kind).limit["recipient_email"] = 320
          /\ Checks(kind).limit["token_nonce"] = 64
      BY <1>1 DEF Required, Entity, PortalInvite, Checks, PortalInviteChecks, Of
    <3>2. \A c \in Required(kind) : new[c] # None
      BY <2>1, <2>2, <2>3, <2>4, <3>1
    <3>3. \A c \in Checks(kind).required : ~Blank(new[c])
      BY <1>4, <2>2, <2>3, <3>1
    <3>4. \A c \in Columns(kind) \cap DOMAIN Checks(kind).limit :
            new[c] # None => Chars(new[c]) <= Checks(kind).limit[c]
      BY <2>1, <2>2, <2>3, <3>1
    <3>. QED
      BY <3>1, <3>2, <3>3, <3>4 DEF Fits, Satisfies
  <2>7. said' = "ok" /\ row' = new /\ born' = "verb"
    BY <1>1, <1>2, <1>4, <2>6
  <2>. QED
    BY <1>1, <2>5, <2>6, <2>7, Known, NoneApart, Frame DEF RowOk, StatusMove
<1>. QED
  BY <1>3, <1>4

(* The policy deleted and inserted in one transaction, with a note of any  *)
(* length.                                                                 *)
LEMMA PolicyStep == ASSUME OfficeInv, SetSignupPolicy PROVE OfficeInv' /\ StatusMove
<1>1. kind = "policy" /\ link = None /\ UNCHANGED <<kind, form, link, now, writes>>
  BY Known DEF SetSignupPolicy
<1>2. PICK on, note, who, new :
        /\ on \in {"yes", "no"}
        /\ note \in Input("policy", "note") /\ who \in Input("policy", "updated_by")
        /\ new = [enabled |-> Named(on), note |-> note, updated_by |-> who]
        /\ Store(new)
        /\ IF said' = "ok" THEN gone' = FALSE /\ born' = "verb" ELSE UNCHANGED <<gone, born>>
  BY DEF SetSignupPolicy
<1>3. IsRow(kind, new)
  <2>1. Columns(kind) = {"enabled", "note", "updated_by"}
    BY <1>1 DEF Columns, Entity, PortalSignupPolicy, Of
  <2>2. new = [c \in Columns(kind) |-> new[c]]
    BY <1>2, <2>1
  <2>3. /\ new["enabled"] = Named(on) /\ new["note"] = note /\ new["updated_by"] = who
    BY <1>2
  <2>4. /\ Named(on) \in Cell(kind, "enabled") /\ note \in Cell(kind, "note")
        /\ who \in Cell(kind, "updated_by")
    BY <1>1, <1>2, Known, Cells, InputIsCell
  <2>. QED
    BY <2>1, <2>2, <2>3, <2>4 DEF IsRow
<1>4. /\ said' \in {"ok", "failed"}
      /\ said' = "ok" => row' = new /\ RowOk(kind, row')
      /\ said' = "failed" => row' = row
  BY <1>2, <1>3, StoreOutcome
<1>5. StatusMove
  BY <1>1 DEF StatusMove
<1>. QED
  BY <1>1, <1>2, <1>4, <1>5, Known, NoneApart, Frame DEF OfficeInv

(* The patch of a principal: its limits are counted in bytes and none      *)
(* exceeds the table's, so that the table takes what the limits let by.    *)
LEMMA DetailsStep == ASSUME OfficeInv, UpdateMyDetails PROVE OfficeInv' /\ StatusMove
<1>1. kind = "user" /\ row # None /\ Generic /\ UNCHANGED <<gone, born, form, link>>
  BY DEF UpdateMyDetails
<1>2. PICK c, v, new :
        /\ c \in DOMAIN DetailLimit /\ v \in Text("user", c)
        /\ new = Put(row, c, v)
        /\ IF ~ValidDetail(c, v) \/ gone \/ row.status # Named("active")
           THEN said' = "refused" /\ UNCHANGED row
           ELSE IF Fits("user", new) THEN said' = "ok" /\ row' = new
           ELSE said' = "tripped" /\ UNCHANGED row
  BY DEF UpdateMyDetails, Put
<1>3. RowOk(kind, row) /\ IsRow(kind, row)
  BY <1>1 DEF OfficeInv, RowOk
<1>4. CASE said' = "refused" /\ UNCHANGED row
  BY <1>1, <1>4, Known, Frame DEF OfficeInv, StatusMove, Generic, Keep
<1>5. CASE ValidDetail(c, v)
  <2>1. /\ v \in Cell(kind, c) /\ v # None
        /\ Chars(v) \in Nat /\ Bytes(v) \in Nat /\ Chars(v) <= Bytes(v)
    <3>1. c \notin TimeColumn \cup IdColumn \cup {"status", "enabled"}
      BY <1>1, <1>2, Known, ColumnShapes
    <3>. QED
      BY <1>1, <1>2, <3>1, Known, Cells, TextIsText
  <2>2. /\ c \in Columns(kind) /\ c \in DOMAIN Checks(kind).limit /\ c \notin Required(kind)
        /\ c # "status" /\ DetailLimit[c] \in Nat /\ Checks(kind).limit[c] \in Nat
        /\ DetailLimit[c] <= Checks(kind).limit[c]
    BY <1>1, <1>2, Known, LimitsAreNumbers, ColumnShapes
  <2>3. Chars(v) <= Checks(kind).limit[c]
    BY <1>5, <2>1, <2>2 DEF ValidDetail
  <2>4. /\ IsRow(kind, new) /\ new[c] = v /\ new.status = row.status
        /\ \A d \in Columns(kind) : d # c => new[d] = row[d]
    BY <1>1, <1>2, <1>3, <2>1, <2>2, Known, OneCell, MarkIsRow
  <2>5. Fits(kind, new)
    <3>1. Checks(kind).required \subseteq Required(kind)
      BY Known, RulesAreChecks
    <3>2. \A d \in Required(kind) : new[d] = row[d] /\ new[d] # None
      BY <1>3, <2>2, <2>4, Known, ColumnLists DEF ListsAgree, RowOk, Fits
    <3>3. \A d \in Checks(kind).required : ~Blank(new[d])
      BY <1>3, <3>1, <3>2, Known, ColumnLists DEF ListsAgree, RowOk, Fits,
         Satisfies
    <3>4. \A d \in Columns(kind) \cap DOMAIN Checks(kind).limit :
            new[d] # None => Chars(new[d]) <= Checks(kind).limit[d]
      BY <1>3, <2>3, <2>4 DEF RowOk, Fits, Satisfies
    <3>. QED
      BY <3>1, <3>2, <3>3, <3>4 DEF Fits, Satisfies
  <2>6. said' \in {"ok", "refused"} /\ row' \in {row, new}
    BY <1>1, <1>2, <2>5
  <2>7. RowOk(kind, row') /\ row'.status = row.status
    BY <1>3, <2>4, <2>5, <2>6 DEF RowOk
  <2>8. StatusMove
    BY <2>7 DEF StatusMove
  <2>. QED
    BY <1>1, <2>6, <2>7, <2>8, Known, Frame DEF OfficeInv, Generic, Keep
<1>. QED
  BY <1>2, <1>4, <1>5

-----------------------------------------------------------------------------
(* The invariant holds, and every step moves a status along its edges.     *)

(* Time passes, or nothing happens.                                        *)
LEMMA StillStep ==
    ASSUME OfficeInv, Tick \/ UNCHANGED ovars
    PROVE  OfficeInv' /\ StatusMove
<1>1. /\ UNCHANGED <<kind, row, gone, born, form, link, said, writes>>
      /\ now' \in 0..MaxTime
  BY Known, TimeAssumption DEF Tick, ovars
<1>2. StatusMove
  BY <1>1 DEF StatusMove
<1>. QED
  BY <1>1, <1>2, Known, Frame DEF OfficeInv

LEMMA OfficeInit == OInit => OfficeInv
<1>1. 0 \in 0..MaxTime /\ 0 \in 0..MaxWrites
  BY TimeAssumption
<1>2. OInit => OTypeOK
  BY <1>1 DEF OInit, OTypeOK
<1>. QED
  BY <1>2 DEF OInit, OfficeInv

LEMMA OfficeStep == ASSUME OfficeInv, [ONext]_ovars PROVE OfficeInv' /\ StatusMove
<1>1. CASE Routes
  BY <1>1, CreateStep, ReadStep, UpdateStep, PatchStep, TrashStep DEF Routes
<1>2. CASE Verbs
  BY <1>2, AdmitStep, MintBearerStep, MintStep, PolicyStep, RevokeStep, RotateStep, TouchStep, RedeemStep,
     SweepStep, LoginStep, OnboardStep, DetailsStep DEF Verbs
<1>3. CASE Tick \/ UNCHANGED ovars
  BY <1>3, StillStep
<1>. QED
  BY <1>1, <1>2, <1>3 DEF ONext

LEMMA OfficeInvariant == OSpec => []OfficeInv
<1>1. OInit => OfficeInv
  BY OfficeInit
<1>2. OfficeInv /\ [ONext]_ovars => OfficeInv'
  BY OfficeStep
<1>. QED
  BY <1>1, <1>2, PTL DEF OSpec

(* Whatever bodies, patches, reasons and forms a row has seen, it has the  *)
(* columns of its table and no NULL where there may be none, and a link is *)
(* out only for a token or an invitation that its verb has minted.         *)
THEOREM OfficeTyped == OSpec => []OTypeOK
<1>1. OfficeInv => OTypeOK
  BY DEF OfficeInv
<1>. QED
  BY <1>1, OfficeInvariant, PTL

(* No write that the row rules, the limits of the self-service patch or    *)
(* the mint of an invitation have let by is refused by a CHECK of the      *)
(* table, though the row rules look at the changed columns only.           *)
THEOREM ChecksNeverTrip == OSpec => []ChecksHold
<1>1. OfficeInv => ChecksHold
  BY DEF OfficeInv, ChecksHold
<1>. QED
  BY <1>1, OfficeInvariant, PTL

(* A principal that a POST has inserted is invited or revoked, never       *)
(* active, whatever the routes and verbs do to it afterwards.              *)
THEOREM GenericNeverAdmits == OSpec => []CreatedNotAdmitted
<1>1. OfficeInv => CreatedNotAdmitted
  BY DEF OfficeInv, CreatedNotAdmitted, Named
<1>. QED
  BY <1>1, OfficeInvariant, PTL

(* Every step that changes a status takes an edge of the row's lifecycle:  *)
(* a form read before a revocation, PUT after it, revives nothing.         *)
THEOREM StatusMovesByVerb == OSpec => StatusByVerb
<1>1. OfficeInv /\ [ONext]_ovars => [StatusMove]_ovars
  BY OfficeStep
<1>. QED
  BY <1>1, OfficeInvariant, PTL DEF OSpec, StatusByVerb, StatusMove

(* A link that is accepted has not outlived its second, and speaks for the *)
(* grant and the nonce it was minted for.                                  *)
THEOREM LinksSpeakForTheirGrant == OSpec => []LinkSound
<1>1. ASSUME OfficeInv, NEW email \in Presenter, Accepts(email)
      PROVE  /\ Seconds(At(now)) <= link.exp
             /\ link.mac.grant = Grant(kind, row)
             /\ kind = "invite" => email = link.mac.grant
             /\ row.token_nonce = link.mac.nonce
  <2>1. /\ link # None /\ row # None
        /\ link.mac = LinkOf(kind, row).mac
        /\ link.exp = Seconds(row.token_expires_at)
        /\ now <= row.token_expires_at[1]
        /\ kind = "invite" => email = row.recipient_email
    BY <1>1 DEF Accepts, Authentic
  <2>2. kind \in {"token", "invite"} /\ now \in Nat
    BY <1>1, <2>1, Known
  <2>3. PICK t \in Nat : row.token_expires_at = At(t)
    <3>1. /\ "token_expires_at" \in Columns(kind) \cap Required(kind)
          /\ "token_expires_at" \in TimeColumn
      BY <2>2 DEF Columns, Required, Entity, PortalToken, PortalInvite, TimeColumn, Of
    <3>2. row["token_expires_at"] \in Cell(kind, "token_expires_at") \ {None}
      BY <1>1, <2>1, <3>1 DEF OfficeInv, RowOk, IsRow, Fits
    <3>. QED
      BY <3>1, <3>2, ColumnShapes DEF Cell
  <2>4. now <= t /\ link.exp = t \div 2 /\ Seconds(At(now)) = now \div 2
    BY <2>1, <2>3 DEF Seconds, At
  <2>5. now \div 2 <= t \div 2
    BY <2>2, <2>4
  <2>6. /\ link.mac.grant = Grant(kind, row) /\ link.mac.nonce = row.token_nonce
    BY <2>1 DEF LinkOf
  <2>7. kind = "invite" => Grant(kind, row) = row.recipient_email
    BY DEF Grant
  <2>. QED
    BY <2>1, <2>4, <2>5, <2>6, <2>7
<1>2. OfficeInv => LinkSound
  BY <1>1 DEF LinkSound
<1>. QED
  BY <1>2, OfficeInvariant, PTL

-----------------------------------------------------------------------------
(* The bodies.                                                             *)

(* The form, put back as it was read.                                      *)
LEMMA PutBack ==
    ASSUME NEW k \in Kinds, NEW r, IsRow(k, r)
    PROVE  Updated(k, r, Responded(k, r)) = r
<1>. PICK f : f = Responded(k, r)
  OBVIOUS
<1>1. DOMAIN r = Columns(k) /\ r = [d \in Columns(k) |-> r[d]]
  BY DEF IsRow
<1>2. \A d \in UpdateDto(k) : f[d] = r[d]
  BY ResponseIsRow
<1>3. Updated(k, r, f) = [d \in Columns(k) |-> IF d \in UpdateDto(k) THEN f[d] ELSE r[d]]
  BY <1>1, ColumnLists DEF ListsAgree, Updated
<1>. QED
  BY <1>1, <1>2, <1>3

(* One column changed, through either route.                               *)
LEMMA RoutesMeet ==
    ASSUME NEW k \in Kinds, NEW r, IsRow(k, r),
           NEW c \in UpdateDto(k) \ {"updated_by"}, NEW v, v # None \/ c \notin Required(k)
    PROVE  /\ Updated(k, r, Put(Responded(k, r), c, v)) = Put(r, c, v)
           /\ Patched(k, r, Body(c, v)) = Put(r, c, v)
<1>. PICK f : f = Responded(k, r)
  OBVIOUS
<1>1. /\ DOMAIN r = Columns(k) /\ DOMAIN f = Columns(k) /\ UpdateDto(k) \subseteq Columns(k)
      /\ \A d \in UpdateDto(k) : f[d] = r[d]
  BY ResponseIsRow, ColumnLists DEF ListsAgree, IsRow
<1>2. r = [d \in Columns(k) |-> r[d]]
  BY DEF IsRow
<1>3. Updated(k, r, Put(f, c, v)) = Put(r, c, v)
  <2>1. PICK g : g = Put(f, c, v)
    OBVIOUS
  <2>2. \A d \in Columns(k) : g[d] = IF d = c THEN v ELSE f[d]
    BY <1>1, <2>1 DEF Put
  <2>3. Updated(k, r, g) = [d \in Columns(k) |-> IF d \in UpdateDto(k) THEN g[d] ELSE r[d]]
    BY <1>1, ColumnLists DEF ListsAgree, Updated
  <2>4. Updated(k, r, g) = [d \in Columns(k) |-> IF d = c THEN v ELSE r[d]]
    BY <1>1, <2>2, <2>3
  <2>. QED
    BY <1>1, <2>1, <2>4 DEF Put
<1>4. Patched(k, r, Body(c, v)) = Put(r, c, v)
  <2>1. c \in Arms(k) /\ Takes(k, c, v)
    BY ColumnLists DEF ListsAgree, Takes
  <2>2. Patched(k, r, Body(c, v)) = [d \in Columns(k) |-> IF d = c THEN v ELSE r[d]]
    BY <2>1 DEF Patched, Body
  <2>. QED
    BY <1>1, <2>2 DEF Put
<1>. QED
  BY <1>3, <1>4

(* A POST of a row's columns.                                              *)
LEMMA PostMeets ==
    ASSUME NEW k \in Kinds, NEW r, NEW c \in Columns(k) \ {"status"}
    PROVE  Created(k, r)[c] = r[c]
  BY ColumnLists DEF ListsAgree, Created

(* The lists of the four entities agree over any row and any form: what an *)
(* officer has just read can be put back without a change, one edited      *)
(* column comes to the same row through PUT and through PATCH, and a POST  *)
(* takes every column but the status.                                      *)
THEOREM RoutesAgreeAlways == OSpec => []RoutesAgree
<1>1. ASSUME OfficeInv, row # None, form = Responded(kind, row)
      PROVE  /\ Updated(kind, row, form) = row
             /\ \A c \in UpdateDto(kind) \ {"updated_by"} : \A v \in Input(kind, c) :
                  Takes(kind, c, v)
                  => Updated(kind, row, [form EXCEPT ![c] = v])
                        = Patched(kind, row, [key \in {c} |-> v])
  <2>1. kind \in Kinds /\ IsRow(kind, row)
    BY <1>1, Known DEF OfficeInv, RowOk
  <2>2. ASSUME NEW c \in UpdateDto(kind) \ {"updated_by"}, NEW v, Takes(kind, c, v)
        PROVE  Updated(kind, row, [form EXCEPT ![c] = v])
                  = Patched(kind, row, [key \in {c} |-> v])
    <3>1. Updated(kind, row, Put(form, c, v)) = Patched(kind, row, Body(c, v))
      BY <1>1, <2>1, <2>2, RoutesMeet DEF Takes
    <3>. QED
      BY <3>1 DEF Put, Body
  <2>3. Updated(kind, row, form) = row
    BY <1>1, <2>1, PutBack
  <2>. QED
    BY <2>2, <2>3
<1>2. OfficeInv => RoutesAgree
  BY <1>1, Known, PostMeets DEF RoutesAgree
<1>. QED
  BY <1>2, OfficeInvariant, PTL

-----------------------------------------------------------------------------
(* The recipient credential, for values of any length and emails of any    *)
(* number of parts.                                                        *)

(* The parts of a minted credential, and its email back from between them. *)
LEMMA MintedParts ==
    ASSUME NEW S, NEW email \in Seq(S), NEW u, NEW exp
    PROVE  LET value == MintRecipientCredential(u, email, exp)
               n == Len(email) + 3
           IN /\ Len(email) \in Nat /\ Len(value) = n
              /\ value[1] = UserPart(u)
              /\ value[n - 1] = NumberPart(exp)
              /\ value[n] = MacPart(u, email, exp)
              /\ \A i \in 2..n - 2 : value[i] = email[i - 1]
              /\ SubSeq(value, 2, n - 2) = email
<1> DEFINE value == MintRecipientCredential(u, email, exp)
           n == Len(email) + 3
           T == S \cup {UserPart(u), NumberPart(exp), MacPart(u, email, exp)}
           front == <<UserPart(u)>> \o email
           back == <<NumberPart(exp), MacPart(u, email, exp)>>
<1>1. Len(email) \in Nat
  BY LenProperties
<1>2. email \in Seq(T) /\ <<UserPart(u)>> \in Seq(T) /\ back \in Seq(T)
  OBVIOUS
<1>3. Len(<<UserPart(u)>>) = 1 /\ <<UserPart(u)>>[1] = UserPart(u)
  OBVIOUS
<1>4. Len(back) = 2 /\ back[1] = NumberPart(exp) /\ back[2] = MacPart(u, email, exp)
  OBVIOUS
<1>5. /\ front \in Seq(T) /\ Len(front) = Len(email) + 1
      /\ front[1] = UserPart(u)
      /\ \A i \in 2..Len(email) + 1 : front[i] = email[i - 1]
  BY <1>1, <1>2, <1>3, ConcatProperties
<1>6. value = front \o back
  BY DEF MintRecipientCredential
<1> HIDE DEF front, back, value, T
<1>7. /\ Len(value) = n
      /\ \A i \in 1..n : value[i] = IF i <= Len(email) + 1 THEN front[i]
                                    ELSE back[i - (Len(email) + 1)]
  <2>1. PICK joined : joined = front \o back
    OBVIOUS
  <2>2. /\ Len(joined) = Len(front) + Len(back)
        /\ \A i \in 1..Len(front) + Len(back) :
              joined[i] = IF i <= Len(front) THEN front[i] ELSE back[i - Len(front)]
    BY <1>2, <1>5, <2>1, ConcatProperties
  <2>3. Len(front) + Len(back) = n
    BY <1>1, <1>4, <1>5
  <2>. QED
    BY <1>5, <1>6, <2>1, <2>2, <2>3
<1>8. /\ value[1] = UserPart(u)
      /\ value[n - 1] = NumberPart(exp)
      /\ value[n] = MacPart(u, email, exp)
      /\ \A i \in 2..n - 2 : value[i] = email[i - 1]
  BY <1>1, <1>4, <1>5, <1>7
<1>9. SubSeq(value, 2, n - 2) = email
  <2>1. PICK middle : middle = SubSeq(value, 2, n - 2)
    OBVIOUS
  <2>2. \A i \in 2..n - 2 : value[i] \in S
    BY <1>1, <1>8, ElementOfSeq
  <2>3. /\ middle \in Seq(S)
        /\ Len(middle) = Len(email)
        /\ \A i \in 1..n - 3 : middle[i] = value[i + 1]
    <3>1. /\ middle \in Seq(S)
          /\ Len(middle) = IF 2 <= n - 2 THEN n - 2 - 2 + 1 ELSE 0
          /\ \A i \in 1..n - 2 - 2 + 1 : middle[i] = value[2 + i - 1]
      BY <1>1, <2>1, <2>2, SubSeqProperties
    <3>. QED
      BY <1>1, <3>1
  <2>4. \A i \in 1..Len(middle) : middle[i] = email[i]
    BY <1>1, <1>8, <2>3
  <2>. QED
    BY <2>1, <2>3, <2>4, SeqEqual
<1>. QED
  BY <1>1, <1>7, <1>8, <1>9 DEF value

(* A minted credential, in any spelling, verifies until its expiry has     *)
(* passed, dots and numbers in its email or not.                           *)
LEMMA RespelledVerifies ==
    ASSUME NEW S, NEW email \in Seq(S), email # <<>>, NEW u, NEW exp, NEW t, NEW value,
           Respells(value, MintRecipientCredential(u, email, exp))
    PROVE  VerifyRecipientCredential(value, t) <=> t <= exp
<1>1. PICK minted, n : minted = MintRecipientCredential(u, email, exp) /\ n = Len(email) + 3
  OBVIOUS
<1>2. /\ n \in Nat /\ n >= 3 /\ Len(minted) = n
      /\ minted[1] = UserPart(u) /\ minted[n - 1] = NumberPart(exp)
      /\ minted[n] = MacPart(u, email, exp) /\ SubSeq(minted, 2, n - 2) = email
  BY <1>1, MintedParts
<1>3. /\ Len(value) = n /\ SubSeq(value, 2, n - 2) = email
      /\ Reads(value[1]) = Reads(UserPart(u))
      /\ Reads(value[n - 1]) = Reads(NumberPart(exp))
      /\ Reads(value[n]) = Reads(MacPart(u, email, exp))
  BY <1>1, <1>2 DEF Respells
<1>4. /\ value[1][1] = "user" /\ value[1][2] = u
      /\ value[n - 1][1] = "number" /\ value[n - 1][2] = exp
      /\ value[n][1] = "mac" /\ value[n][2] = <<u, email, exp>>
  BY <1>3 DEF Reads, UserPart, NumberPart, MacPart
<1>5. Joined(SubSeq(value, 2, n - 2)) = email
  BY <1>3 DEF Joined
<1>. QED
  BY <1>2, <1>3, <1>4, <1>5 DEF VerifyRecipientCredential

(* The MACs in P are minted ones, of emails that are there.                *)
MintedMacs(P) ==
    \A p \in P : p[1] = "mac" =>
        \E u, e, x : e \notin {<<>>, NoEmail} /\ p[2] = <<u, e, x>>

(* What verifies is a spelling of what was minted for the user, the email  *)
(* and the expiry that can be read from it.                                *)
LEMMA VerifiedWasMinted ==
    ASSUME NEW P, MintedMacs(P), NEW value \in Seq(P), NEW t, VerifyRecipientCredential(value, t)
    PROVE  LET n == Len(value)
               email == SubSeq(value, 2, n - 2)
           IN /\ n \in Nat /\ n >= 3 /\ value[n] \in P /\ value[n][1] = "mac"
              /\ email \in Seq(P) \ {<<>>, NoEmail}
              /\ value[n][2] = <<value[1][2], email, value[n - 1][2]>>
              /\ Respells(value, MintRecipientCredential(value[1][2], email, value[n - 1][2]))
              /\ t <= value[n - 1][2]
<1>1. PICK n, u, exp, email :
        n = Len(value) /\ u = value[1][2] /\ exp = value[n - 1][2] /\ email = SubSeq(value, 2, n - 2)
  OBVIOUS
<1>2. /\ n \in Nat /\ n >= 3
      /\ value[1][1] = "user" /\ value[n - 1][1] = "number" /\ value[n][1] = "mac"
      /\ value[n][2] = <<u, Joined(email), exp>>
      /\ t <= exp
  BY <1>1, LenProperties DEF VerifyRecipientCredential
<1>3. \A i \in 1..n : value[i] \in P
  BY <1>1, ElementOfSeq
<1>4. email \notin {<<>>, NoEmail} /\ Joined(email) = email
  <2>1. value[n] \in P
    BY <1>2, <1>3
  <2>2. PICK v, e, x : e \notin {<<>>, NoEmail} /\ value[n][2] = <<v, e, x>>
    BY <1>2, <2>1 DEF MintedMacs
  <2>3. Joined(email) = e
    BY <1>2, <2>2
  <2>. QED
    BY <2>2, <2>3 DEF Joined
<1>5. email \in Seq(P) /\ Len(email) = n - 3
  <2>1. \A i \in 2..n - 2 : value[i] \in P
    BY <1>2, <1>3
  <2>2. /\ email \in Seq(P)
        /\ Len(email) = IF 2 <= n - 2 THEN n - 2 - 2 + 1 ELSE 0
    BY <1>1, <1>2, <2>1, SubSeqProperties
  <2>. QED
    BY <1>2, <2>2
<1>6. PICK minted : minted = MintRecipientCredential(u, email, exp)
  OBVIOUS
<1>7. /\ Len(minted) = n
      /\ minted[1] = UserPart(u) /\ minted[n - 1] = NumberPart(exp)
      /\ minted[n] = MacPart(u, email, exp)
      /\ SubSeq(minted, 2, n - 2) = email
  <2>1. Len(email) + 3 = n
    BY <1>2, <1>5
  <2>. QED
    BY <1>5, <1>6, <2>1, MintedParts
<1>8. \A i \in {1, n - 1, n} : Reads(value[i]) = Reads(minted[i])
  <2>1. Reads(value[1]) = Reads(minted[1]) /\ Reads(value[n - 1]) = Reads(minted[n - 1])
    BY <1>1, <1>2, <1>7 DEF Reads, UserPart, NumberPart
  <2>2. Reads(value[n]) = Reads(minted[n])
    <3>1. value[n][2] = <<u, email, exp>>
      BY <1>2, <1>4
    <3>. QED
      BY <1>2, <1>7, <3>1 DEF Reads, MacPart
  <2>. QED
    BY <2>1, <2>2
<1>9. Respells(value, minted)
  BY <1>1, <1>7, <1>8 DEF Respells
<1>. QED
  BY <1>1, <1>2, <1>3, <1>4, <1>5, <1>6, <1>9

(* For values of any length, put together from minted MACs and any other   *)
(* parts: a value verifies exactly when it is a spelling of what is minted *)
(* for some user, email and expiry, and the expiry has not passed.         *)
THEOREM CredentialBinds ==
    ASSUME NEW P, MintedMacs(P), NEW value \in Seq(P), NEW t
    PROVE  VerifyRecipientCredential(value, t)
             <=> \E u, exp : \E email \in Seq(P) \ {<<>>, NoEmail} :
                    Respells(value, MintRecipientCredential(u, email, exp)) /\ t <= exp
<1>1. ASSUME NEW u, NEW exp, NEW email \in Seq(P) \ {<<>>, NoEmail},
             Respells(value, MintRecipientCredential(u, email, exp)), t <= exp
      PROVE  VerifyRecipientCredential(value, t)
  BY <1>1, RespelledVerifies
<1>2. ASSUME VerifyRecipientCredential(value, t)
      PROVE  \E u, exp : \E email \in Seq(P) \ {<<>>, NoEmail} :
                Respells(value, MintRecipientCredential(u, email, exp)) /\ t <= exp
  BY <1>2, VerifiedWasMinted
<1>. QED
  BY <1>1, <1>2

(* The parts a value of SomeValue is put together from.                    *)
SomePart == Spelled("user", Id) \cup Spelled("number", Instant \cup {1})
                \cup Spelled("mac", MacInput(Id, Instant)) \cup {TextPart("a"), TextPart("")}

(* What is spelled one way or another reads as it should.                  *)
LEMMA SpelledParts ==
    ASSUME NEW shape, NEW whats
    PROVE  /\ \A what \in whats, s \in Spelling : <<shape, what, s>> \in Spelled(shape, whats)
           /\ \A p \in Spelled(shape, whats) : p[1] = shape /\ p[2] \in whats
<1>1. Spelled(shape, whats) = {<<shape, what, s>> : what \in whats, s \in Spelling}
  BY DEF Spelled
<1>2. ASSUME NEW p \in Spelled(shape, whats) PROVE p[1] = shape /\ p[2] \in whats
  <2>1. PICK what \in whats, s \in Spelling : p = <<shape, what, s>>
    BY <1>1
  <2>. QED
    BY <2>1
<1>. QED
  BY <1>1, <1>2

(* Sequences of no, one and two parts.                                     *)
LEMMA ShortSequences ==
    ASSUME NEW P
    PROVE  /\ <<>> \in Seq(P)
           /\ \A p \in P : <<p>> \in Seq(P)
           /\ \A p, q \in P : <<p, q>> \in Seq(P)
  OBVIOUS

(* An email of the instance is there, and made of its parts.               *)
LEMMA SomeEmails ==
    ASSUME NEW e \in SomeEmail
    PROVE  e \in Seq(SomePart) /\ e \notin {<<>>, NoEmail}
<1>1. EmailPart \subseteq SomePart /\ \A p \in EmailPart : p # TextPart("")
  <2>1. 1 \in Instant \cup {1} /\ "plain" \in Spelling
    BY DEF Spelling
  <2>2. NumberPart(1) \in Spelled("number", Instant \cup {1})
    BY <2>1, SpelledParts DEF NumberPart
  <2>3. EmailPart \subseteq SomePart
    BY <2>2 DEF EmailPart, SomePart
  <2>4. TextPart("a")[2] = "a" /\ TextPart("")[2] = "" /\ TextPart("")[1] = "text"
    BY DEF TextPart
  <2>5. NumberPart(1)[1] = "number"
    BY DEF NumberPart
  <2>6. "a" # "" /\ "number" # "text"
    OBVIOUS
  <2>7. TextPart("a") # TextPart("") /\ NumberPart(1) # TextPart("")
    BY <2>4, <2>5, <2>6
  <2>. QED
    BY <2>3, <2>7 DEF EmailPart
<1>2. \/ \E p \in EmailPart : e = <<p>>
      \/ \E p, q \in EmailPart : e = <<p, q>>
  BY DEF SomeEmail
<1>3. CASE \E p \in EmailPart : e = <<p>>
  <2>1. PICK p \in EmailPart : e = <<p>>
    BY <1>3
  <2>2. e \in Seq(SomePart)
    BY <1>1, <2>1, ShortSequences
  <2>3. e[1] = p /\ NoEmail[1] = TextPart("") /\ e # <<>>
    BY <2>1 DEF NoEmail
  <2>4. p # TextPart("")
    BY <1>1
  <2>. QED
    BY <2>2, <2>3, <2>4
<1>4. CASE \E p, q \in EmailPart : e = <<p, q>>
  <2>1. PICK p, q \in EmailPart : e = <<p, q>>
    BY <1>4
  <2>2. e \in Seq(SomePart) /\ Len(e) = 2
    BY <1>1, <2>1, ShortSequences
  <2>3. Len(<<>>) = 0 /\ Len(NoEmail) = 1
    BY DEF NoEmail
  <2>. QED
    BY <2>2, <2>3
<1>. QED
  BY <1>2, <1>3, <1>4

(* The MACs among the parts are minted ones.                               *)
LEMMA SomeMacs ==
    /\ \A p \in SomePart : p[1] = "mac" => p[2] \in MacInput(Id, Instant)
    /\ MintedMacs(SomePart)
<1>1. \A p \in SomePart : p[1] = "mac" => p[2] \in MacInput(Id, Instant)
  <2>1. ASSUME NEW p \in SomePart, p[1] = "mac" PROVE p \in Spelled("mac", MacInput(Id, Instant))
    <3>1. \A q \in Spelled("user", Id) : q[1] = "user"
      BY SpelledParts
    <3>2. \A q \in Spelled("number", Instant \cup {1}) : q[1] = "number"
      BY SpelledParts
    <3>3. TextPart("a")[1] = "text" /\ TextPart("")[1] = "text"
      BY DEF TextPart
    <3>4. "user" # "mac" /\ "number" # "mac" /\ "text" # "mac"
      OBVIOUS
    <3>. QED
      BY <2>1, <3>1, <3>2, <3>3, <3>4 DEF SomePart
  <2>. QED
    BY <2>1, SpelledParts
<1>. QED
  BY <1>1, SomeEmails DEF MintedMacs, MacInput

(* The values are made of the parts.                                       *)
LEMMA SomeValues == ASSUME NEW value \in SomeValue(Id, Instant) PROVE value \in Seq(SomePart)
<1> DEFINE Maybe(parts) == {<<>>} \cup {<<p>> : p \in parts}
           Middle == {<<>>, NoEmail, <<<<"number", 1, "other">>>>} \cup SomeEmail
           H == Maybe(Spelled("user", Id))
           X == Maybe(Spelled("number", Instant))
           T == Maybe(Spelled("mac", MacInput(Id, Instant)))
<1>1. \E h \in H, m \in Middle, x \in X, t \in T : value = h \o m \o x \o t
  <2>1. SomeValue(Id, Instant) = {h \o m \o x \o t : h \in H, m \in Middle, x \in X, t \in T}
    BY DEF SomeValue
  <2> HIDE DEF H, Middle, X, T
  <2>. QED
    BY <2>1
<1>2. ASSUME NEW parts, parts \subseteq SomePart
      PROVE  \A s \in Maybe(parts) : s \in Seq(SomePart)
  BY <1>2, ShortSequences
<1>3. /\ Spelled("user", Id) \subseteq SomePart
      /\ Spelled("number", Instant) \subseteq SomePart
      /\ Spelled("mac", MacInput(Id, Instant)) \subseteq SomePart
  <2>1. Spelled("number", Instant) \subseteq Spelled("number", Instant \cup {1})
    BY DEF Spelled
  <2>. QED
    BY <2>1 DEF SomePart
<1>4. \A m \in Middle : m \in Seq(SomePart)
  <2>1. TextPart("") \in SomePart /\ <<"number", 1, "other">> \in SomePart
    BY SpelledParts DEF SomePart, Spelling
  <2>2. NoEmail \in Seq(SomePart) /\ <<<<"number", 1, "other">>>> \in Seq(SomePart)
    BY <2>1, ShortSequences DEF NoEmail
  <2>. QED
    BY <2>2, SomeEmails, ShortSequences
<1>5. /\ \A h \in H : h \in Seq(SomePart)
      /\ \A x \in X : x \in Seq(SomePart)
      /\ \A t \in T : t \in Seq(SomePart)
  BY <1>2, <1>3
<1> HIDE DEF H, Middle, X, T
<1>6. PICK h \in H, m \in Middle, x \in X, t \in T : value = h \o m \o x \o t
  BY <1>1
<1>. QED
  BY <1>4, <1>5, <1>6, ConcatProperties

(* Of the values that can be put together from the parts of minted ones in *)
(* any spelling, exactly those verify that are spellings of a minted one   *)
(* that has not expired.                                                   *)
THEOREM RecipientsBind == OSpec => []RecipientBinds
<1>1. ASSUME NEW t \in Instant, NEW value \in SomeValue(Id, Instant)
      PROVE  VerifyRecipientCredential(value, t)
               <=> \E u \in Id, e \in SomeEmail, exp \in Instant :
                      Respells(value, MintRecipientCredential(u, e, exp)) /\ t <= exp
  <2>1. value \in Seq(SomePart) /\ MintedMacs(SomePart)
    BY SomeValues, SomeMacs
  <2>2. ASSUME NEW u \in Id, NEW e \in SomeEmail, NEW exp \in Instant,
               Respells(value, MintRecipientCredential(u, e, exp)), t <= exp
        PROVE  VerifyRecipientCredential(value, t)
    <3>1. e \in Seq(SomePart) /\ e # <<>>
      BY SomeEmails
    <3>. QED
      BY <2>2, <3>1, RespelledVerifies
  <2>3. ASSUME VerifyRecipientCredential(value, t)
        PROVE  \E u \in Id, e \in SomeEmail, exp \in Instant :
                  Respells(value, MintRecipientCredential(u, e, exp)) /\ t <= exp
    <3>1. PICK n, email, exp, u :
            n = Len(value) /\ email = SubSeq(value, 2, n - 2) /\ exp = value[n - 1][2]
            /\ u = value[1][2]
      OBVIOUS
    <3>2. /\ value[n] \in SomePart /\ value[n][1] = "mac"
          /\ value[n][2] = <<u, email, exp>>
          /\ Respells(value, MintRecipientCredential(u, email, exp))
          /\ t <= exp
      BY <2>1, <2>3, <3>1, VerifiedWasMinted
    <3>3. <<u, email, exp>> \in MacInput(Id, Instant)
      BY <3>2, SomeMacs
    <3>4. u \in Id /\ email \in SomeEmail /\ exp \in Instant
      BY <3>3 DEF MacInput
    <3>. QED
      BY <3>2, <3>4
  <2>. QED
    BY <2>2, <2>3
<1>2. RecipientBinds
  BY <1>1 DEF RecipientBinds
<1>. QED
  BY <1>2, PTL
=============================================================================
