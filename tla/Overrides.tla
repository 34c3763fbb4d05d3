------------------------------- MODULE Overrides -------------------------------
(***************************************************************************)
(* Setting overrides of one knowledge base: the endpoints of api/routers/kb,   *)
(* the rows of kb_settings_overrides and what config/settings makes of them.   *)
(* Several API processes serve requests (server.workers); a PATCH writes key   *)
(* by key.  Of the fields, chunk_size and chunk_overlap stand for themselves;  *)
(* limits of a single field, and keys that are refused, are left out.          *)
(***************************************************************************)
EXTENDS Integers, FiniteSets

CONSTANTS
  Servers,   \* API processes
  Globals,   \* bound: values that settings.yaml may have
  Bodies,    \* bound: requests, functions from some keys to values or Null
  Missing, Null

Keys == {"size", "overlap"}

VARIABLES
  base,    \* the global settings, which all processes have loaded
  rows,    \* the stored override of each key: a value, Null (JSON null) or Missing
  todo,    \* what is left to write of each server's PATCH; <<>> when there is none
  mixed    \* history: are there rows that were not validated together?
overrideVars == <<base, rows, todo, mixed>>

\* _validate_chunk_overlap; no field takes None.
Valid(s) == (\A k \in Keys : s[k] # Null) /\ 100 * s.overlap <= 15 * s.size

\* Settings that do not validate keep the application from starting.  A request
\* names fields, and Missing is no value.
ASSUME OverrideBounds ==
  /\ \A g \in Globals : Valid(g)
  /\ \A b \in Bodies : DOMAIN b \subseteq Keys /\ \A k \in DOMAIN b : b[k] # Missing

\* _apply_dotted_overrides
Apply(over) == [k \in Keys |-> IF k \in DOMAIN over /\ over[k] # Missing THEN over[k] ELSE base[k]]
\* resolve_settings raises on a result that is not valid.
Resolves == Valid(Apply(rows))

NonNull(body) == [k \in {j \in DOMAIN body : body[j] # Null} |-> body[k]]
\* Mutant: each value is checked on its own.
AcceptsEach(body) == \A k \in DOMAIN body : body[k] \in {Null} \cup 1 .. 10000
\* _validate_overrides: the body, on top of the global settings only.
Accepts(body) == Valid(Apply(NonNull(body)))

Patching == \E s \in Servers : todo[s] # <<>>
NoRows == [k \in Keys |-> Missing]

Put(s, body) ==
  /\ todo[s] = <<>> /\ Accepts(body)
  /\ rows' = [k \in Keys |-> IF k \in DOMAIN body THEN body[k] ELSE Missing]
  /\ mixed' = (Patching \/ \E k \in DOMAIN body : body[k] = Null)
  /\ UNCHANGED <<base, todo>>

Clear(s) ==
  /\ todo[s] = <<>>
  /\ rows' = NoRows
  /\ mixed' = Patching
  /\ UNCHANGED <<base, todo>>

PatchBegin(s, body) ==
  /\ todo[s] = <<>> /\ body # <<>> /\ Accepts(body)
  /\ todo' = [todo EXCEPT ![s] = body]
  /\ mixed' = (mixed \/ rows # NoRows \/ Patching)
  /\ UNCHANGED <<base, rows>>

\* One key; null deletes the row.
PatchKey(s, k) ==
  /\ rows' = [rows EXCEPT ![k] = IF todo[s][k] = Null THEN Missing ELSE todo[s][k]]
  /\ todo' = [todo EXCEPT ![s] = [j \in DOMAIN @ \ {k} |-> @[j]]]
  /\ UNCHANGED <<base, mixed>>

\* A restart, which loses requests half written and may bring other settings.
Restart ==
  /\ base' \in Globals
  /\ todo' = [s \in Servers |-> <<>>]
  /\ mixed' = (mixed \/ rows # NoRows \/ Patching)
  /\ UNCHANGED rows

OverridesNext ==
  \/ \E s \in Servers : \/ \E b \in Bodies : Put(s, b) \/ PatchBegin(s, b)
                        \/ Clear(s)
                        \/ \E k \in DOMAIN todo[s] : PatchKey(s, k)
  \/ Restart

OverridesInit ==
  /\ base \in Globals
  /\ rows = NoRows /\ todo = [s \in Servers |-> <<>>] /\ mixed = FALSE

-----------------------------------------------------------------------------
\* Outside of a PATCH, overrides that were accepted together, onto the settings
\* that are in force, resolve: no other request in between, no null in a PUT.
AcceptedTogetherResolve == mixed \/ Patching \/ Resolves

=============================================================================
