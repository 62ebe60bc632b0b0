--------------------------- MODULE PortalRecipient ---------------------------
(***************************************************************************)
(* The per-recipient credential (token_service), a link without a row:     *)
(* {user_id}.{email}.{exp}.{mac}.  A value is the sequence of its parts    *)
(* between dots.  A part reads as a user id, a number, a MAC or as text    *)
(* only, and the parsers know more than one spelling of the first three:   *)
(* "plain" is the one a mint writes, "other" stands for braces, capitals,  *)
(* a sign or leading zeros.  An email has dots of its own, so it is one    *)
(* part or more; one of them may well be a number, and it is compared as   *)
(* it is spelled.                                                          *)
(***************************************************************************)
EXTENDS Naturals, Sequences

Spelling == {"plain", "other"}

UserPart(u) == <<"user", u, "plain">>
NumberPart(n) == <<"number", n, "plain">>
TextPart(t) == <<"text", t, "plain">>
(* MACs are equal when their inputs are. *)
MacPart(u, email, exp) == <<"mac", <<u, email, exp>>, "plain">>

Reads(part) == <<part[1], part[2]>>

MintRecipientCredential(u, email, exp) ==
    <<UserPart(u)>> \o email \o <<NumberPart(exp), MacPart(u, email, exp)>>

(* No part joined is the empty text, which is one part. *)
NoEmail == <<TextPart("")>>
Joined(middle) == IF middle = <<>> THEN NoEmail ELSE middle

(* Slip: four parts expected, read from the left. *)
VerifyFromTheLeft(value, now) ==
    /\ Len(value) = 4
    /\ value[1][1] = "user" /\ value[3][1] = "number" /\ value[4][1] = "mac"
    /\ value[4][2] = <<value[1][2], <<value[2]>>, value[3][2]>>
    /\ now <= value[3][2]

(* The user id from the left, the MAC and the expiry from the right, what  *)
(* is left in the middle is the email.  The MAC input is written anew from *)
(* what was read.                                                          *)
VerifyRecipientCredential(value, now) ==
    LET n == Len(value) IN
    /\ n >= 3
    /\ value[1][1] = "user" /\ value[n - 1][1] = "number" /\ value[n][1] = "mac"
    /\ value[n][2] = <<value[1][2], Joined(SubSeq(value, 2, n - 2)), value[n - 1][2]>>
    /\ now <= value[n - 1][2]

(* value is minted but for the spelling of the id, the number and the MAC. *)
Respells(value, minted) ==
    LET n == Len(minted) IN
    /\ Len(value) = n
    /\ \A i \in {1, n - 1, n} : Reads(value[i]) = Reads(minted[i])
    /\ SubSeq(value, 2, n - 2) = SubSeq(minted, 2, n - 2)

-----------------------------------------------------------------------------
(* Bounded inputs: emails of one or two parts, and every value that can be *)
(* put together from the parts of minted ones, spelled one way or another, *)
(* a part missing or not.                                                  *)

EmailPart == {TextPart("a"), NumberPart(1)}
SomeEmail == {<<p>> : p \in EmailPart} \cup {<<p, q>> : p \in EmailPart, q \in EmailPart}

Spelled(shape, whats) == {<<shape, what, s>> : what \in whats, s \in Spelling}
MacInput(Users, Exps) == {<<u, e, x>> : u \in Users, e \in SomeEmail, x \in Exps}

SomeValue(Users, Exps) ==
    LET Maybe(parts) == {<<>>} \cup {<<p>> : p \in parts}
        Middle == {<<>>, NoEmail, <<<<"number", 1, "other">>>>} \cup SomeEmail
    IN {h \o m \o x \o t : h \in Maybe(Spelled("user", Users)), m \in Middle,
                           x \in Maybe(Spelled("number", Exps)),
                           t \in Maybe(Spelled("mac", MacInput(Users, Exps)))}
=============================================================================
