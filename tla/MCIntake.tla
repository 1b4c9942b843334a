------------------------------ MODULE MCIntake ------------------------------
(***************************************************************************)
(* Instances of Intake for TLC.                                            *)
(***************************************************************************)
EXTENDS Intake, TLC

CONSTANTS k1, k2

\* {{a}}{{b}}}}{{x}}{{a}}: a key that occurs twice, one that has no value, and
\* braces that belong to none.
Body ==
  Placeholder(<<"a">>) \o Placeholder(<<"b">>) \o <<Close, Close>> \o
  Placeholder(<<"x">>) \o Placeholder(<<"a">>)

\* An SMS template, and an email template of the same name for later.
TwoTemplates ==
  "otp" :> [name |-> "code", channel |-> "sms", body |-> Body] @@
  "new" :> [name |-> "code", channel |-> "email", body |-> <<"x">>]

Lengths == "sms" :> 3 @@ "email" :> 5

NoVariables == <<>>

Given(key) ==
  [key |-> key, channel |-> "sms", content |-> <<"x">>, template |-> NoTemplate,
   variables |-> NoVariables, malformed |-> FALSE]
Long == [Given(NoKey) EXCEPT !.content = <<"x", "x", "x", "x">>]
Templated(key, variables) ==
  [Given(key) EXCEPT !.content = <<>>, !.template = "otp", !.variables = variables]

CreateCall(item) == [kind |-> "create", items |-> <<item>>]
BatchCall(items) == [kind |-> "batch", items |-> items]

\* Values that are another key, or end in a brace; they make the text too long.
Code == Templated(k2, <<"a">> :> <<"b">> @@ <<"b">> :> <<"a", Close>>)

\* One key or two, in both orders, content of the client's that fits or is too
\* long, and content of a template.
MixedCalls ==
  {CreateCall(Given(k1)), CreateCall(Code),
   BatchCall(<<Given(k1), Given(k2)>>), BatchCall(<<Given(k2), Long, Given(k1)>>)}

CreateOnly == {CreateCall(Given(k1))}
TemplatedBatch == {BatchCall(<<Code>>)}

=============================================================================
