---------------------------- MODULE MCWebClient ----------------------------
(* A small instance of WebClient for TLC. *)
EXTENDS WebClient

\* Two codes of one use; "A-" is another writing of "a", "--" no code at all.
MCForm == "a" :> "a" @@ "b" :> "b" @@ "A-" :> "a" @@ "--" :> "?"
MCUses == "a" :> 1 @@ "b" :> 1
MCTexts == {<<"a">>, <<"A-", "a", "--", "b">>}

\* Texts for the converter: an account, lists of accounts, one account per line,
\* and texts it refuses.  A1 and A2 have the same address; A2 holds a token inside
\* another field, and the address of A3 is an object.
Obj(e) == JsonValue("object", e, <<>>)
Arr(s) == JsonValue("array", <<>>, s)
Num == JsonValue("scalar", <<>>, <<>>)
Bad == JsonValue("invalid", <<>>, <<>>)
Gap == JsonValue("blank", <<>>, <<>>)
Str(s) == StringField(s)
A1 == Obj([email |-> Str("m1"), access_token |-> Str("jwt1"), refresh_token |-> Str("r1"),
           plan_type |-> NullField])
A2 == Obj([email |-> Str("m1"), access_token |-> Str("t2"), expired |-> Str("d1"),
           session |-> ObjectField([refresh_token |-> Str("r2")])])
A3 == Obj([id_token |-> Str("i3"), email |-> ObjectField([address |-> Str("m3")]),
           expired |-> Str("junk")])
Text(root, lines) == [blank |-> FALSE, huge |-> FALSE, root |-> root, lines |-> lines]
MCConvTexts ==
  {EmptyText, [EmptyText EXCEPT !.blank = FALSE, !.huge = TRUE], Text(A1, <<A1>>),
   Text(Arr(<<A1, A2, Arr(<<>>)>>), <<>>), Text(Arr(<<A1, Num>>), <<>>),
   Text(Bad, <<A2, Gap, A2, A3>>), Text(Bad, <<A1, Bad>>)}
MCClaims ==
  [jwt1 |-> [email |-> Str("p1"), client_id |-> Str("c1"), chatgpt_plan_type |-> Str("free")]]

=============================================================================
