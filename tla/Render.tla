------------------------------- MODULE Render -------------------------------
(***************************************************************************)
(* Render of internal/model/template.go: {{key}} is replaced in a text by  *)
(* the value of each key, one key after the other.  A text is a sequence   *)
(* of characters, so that a value and what surrounds it may well become a  *)
(* placeholder which a later key replaces.                                 *)
(***************************************************************************)
EXTENDS Integers, FiniteSets, SequencesExt

CONSTANTS Char,
          Open, Close   \* the characters { and }

ASSUME CharAssumption == {Open, Close} \subseteq Char /\ Open # Close

Text == Seq(Char)

\* A JSON object of strings.
IsVariables(variables) ==
  /\ DOMAIN variables \subseteq Text /\ IsFiniteSet(DOMAIN variables)
  /\ variables \in [DOMAIN variables -> Text]

Placeholder(key) == <<Open, Open>> \o key \o <<Close, Close>>

-----------------------------------------------------------------------------
\* The keys whose placeholder is next in a text, and the text behind it.
KeysNext(text, variables) == {key \in DOMAIN variables : IsPrefix(Placeholder(key), text)}
Behind(text, key) == SubSeq(text, Len(Placeholder(key)) + 1, Len(text))

(***************************************************************************)
(* One pass from left to right that replaces placeholders of any key where *)
(* it comes to them, and does not look again at what it has put there.     *)
(***************************************************************************)
ReplaceEach(text, variables) ==
  LET replaced[t \in Text] ==
        LET next == KeysNext(t, variables)
            key == CHOOSE k \in next : TRUE
        IN IF t = <<>> THEN <<>>
           ELSE IF next = {} THEN <<Head(t)>> \o replaced[Tail(t)]
           ELSE variables[key] \o replaced[Behind(t, key)]
  IN replaced[text]

\* Mutant: strings.Replace with n = 1.
ReplaceOnce(text, key, value) == ReplaceFirstSubSeq(value, Placeholder(key), text)

\* strings.ReplaceAll: such a pass for one key.
ReplaceEvery(text, key, value) == ReplaceEach(text, [k \in {key} |-> value])

\* One key after the other, in the order in which Go ranges over the map.
RenderInOrder(body, variables, order) ==
  LET after[i \in 0 .. Len(order)] ==
        IF i = 0 THEN body ELSE ReplaceEvery(after[i - 1], order[i], variables[order[i]])
  IN after[Len(order)]

\* That order is random: these are the texts Render may return.
Renderings(body, variables) ==
  {RenderInOrder(body, variables, order) : order \in SetToSeqs(DOMAIN variables)}

-----------------------------------------------------------------------------
\* What Render is for: every placeholder of the body replaced, all at once.
Substituted(body, variables) == ReplaceEach(body, variables)

(***************************************************************************)
(* When the order does not matter: keys have no braces and values no       *)
(* opening one, and wherever two opening braces follow each other in the   *)
(* body they begin a placeholder, of this key or another.  In {{{{a}}}}    *)
(* they do not: with a = b and b = c it becomes {{b}} or c.                *)
(***************************************************************************)
Plain(text) == \A i \in DOMAIN text : text[i] \notin {Open, Close}

PlainVariables(variables) ==
  \A key \in DOMAIN variables :
    Plain(key) /\ \A i \in DOMAIN variables[key] : variables[key][i] # Open

OpensAt(body, i) == body[i] = Open /\ body[i + 1] = Open
ClosesAt(body, i) == body[i] = Close /\ body[i + 1] = Close

Tidy(body) ==
  \A i \in 1 .. Len(body) - 1 : OpensAt(body, i) =>
    \E j \in i + 2 .. Len(body) - 1 : ClosesAt(body, j) /\ Plain(SubSeq(body, i + 2, j - 1))

=============================================================================
