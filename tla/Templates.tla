----------------------------- MODULE Templates -----------------------------
(***************************************************************************)
(* Message templates: the templates table and its handlers                 *)
(* (internal/handler/template.go).  Subjects are rendered like bodies and  *)
(* left out, as are requests that are refused and change nothing.          *)
(***************************************************************************)
EXTENDS Faults, Render

CONSTANTS Definition,   \* what each id stands for, once it is handed out
          Seeded,       \* the ids a migration has inserted
          NoTemplate    \* template_id is null

TemplateIds == DOMAIN Definition

ASSUME NoTemplateAssumption == NoTemplate \notin TemplateIds
ASSUME DefinitionAssumption ==
  \A t \in TemplateIds : Definition[t].body \in Text \ {<<>>}
ASSUME SeededAssumption ==
  /\ Seeded \subseteq TemplateIds
  /\ \A s, t \in Seeded : Definition[s].name = Definition[t].name => s = t

VARIABLE templates   \* the table; a template is never changed

TemplatesTypeOK == templates \in [TemplateIds -> {"unknown", "stored", "deleted"}]

TemplatesInit ==
  templates = [t \in TemplateIds |-> IF t \in Seeded THEN "stored" ELSE "unknown"]

-----------------------------------------------------------------------------
Stored(t) == t \in TemplateIds /\ templates[t] = "stored"

\* The UNIQUE constraint on name.
NameTaken(t) == \E s \in TemplateIds : Stored(s) /\ Definition[s].name = Definition[t].name

(***************************************************************************)
(* A name that is taken is refused with 500, not with the 409 the handler  *)
(* has for it: Create of the repository has turned the 23505 into          *)
(* ErrDuplicate, which IsDuplicate does not recognize.                     *)
(***************************************************************************)
CreateTemplate(t) ==
  /\ templates[t] = "unknown"
  /\ ~NameTaken(t)
  /\ templates' = [templates EXCEPT ![t] = "stored"]

\* A DELETE that finds nothing, or fails, is answered with 404.
DeleteTemplate(t) ==
  /\ Stored(t)
  /\ templates' = [templates EXCEPT ![t] = "deleted"]

TemplatesNext == \E t \in TemplateIds : CreateTemplate(t) \/ DeleteTemplate(t)

=============================================================================
