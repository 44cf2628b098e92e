------------------------------ MODULE CatalogMap -----------------------------
(***************************************************************************)
(* What a catalog set promises the binder and the function registry: a map *)
(* from names to catalog entries, and calls that answer by it.  A name     *)
(* that was created stays, a creation never touches the entry of a name    *)
(* that exists, and the entry of a name changes only when that name is     *)
(* replaced.  How names are kept (CatalogSet.tla: two hash maps joined by  *)
(* an index) is not said here.                                             *)
(***************************************************************************)
EXTENDS Naturals, Sequences, FiniteSets, TLC

CONSTANTS
    Names,           \* the names entries are created under
    Entries          \* the values of CatalogEntry

VARIABLES
    entryOf,         \* the entry of every name that exists
    ret              \* the call that was made last and its answer

vars == <<entryOf, ret>>

Calls == {"create", "get", "replace", "scan", "initialize"}

Init == entryOf = <<>> /\ ret = [op |-> "none"]

Answer(op, name, result) == ret' = [op |-> op, name |-> name, result |-> result]

\* A creation is refused for a name that exists and adds the name otherwise.
Create(name, entry) ==
    \/ /\ name \in DOMAIN entryOf
       /\ Answer("create", name, "CatalogEntryExists")
       /\ UNCHANGED entryOf
    \/ /\ name \notin DOMAIN entryOf
       /\ Answer("create", name, "Ok")
       /\ entryOf' = (name :> entry) @@ entryOf

\* A lookup answers the entry of the name.
Get(name) ==
    /\ Answer("get", name, IF name \in DOMAIN entryOf THEN entryOf[name]
                           ELSE "CatalogEntryNotExists")
    /\ UNCHANGED entryOf

\* A replacement changes the entry of the name it is given, which must exist.
Replace(name, entry) ==
    \/ /\ name \in DOMAIN entryOf
       /\ Answer("replace", name, "Ok")
       /\ entryOf' = [entryOf EXCEPT ![name] = entry]
    \/ /\ name \notin DOMAIN entryOf
       /\ Answer("replace", name, "CatalogEntryNotExists")
       /\ UNCHANGED entryOf

\* A scan answers entries of the catalog, at most one for every name.
Scan ==
    /\ \E found \in SUBSET DOMAIN entryOf :
          \E result \in [1..Cardinality(found) -> {entryOf[name] : name \in found}] :
              ret' = [op |-> "scan", result |-> result]
    /\ UNCHANGED entryOf

\* The registration of the builtin functions adds names that do not exist.
Register ==
    /\ ret'.op = "initialize"
    /\ \E fresh \in SUBSET (Names \ DOMAIN entryOf) :
          \E added \in [fresh -> Entries] : entryOf' = added @@ entryOf

\* Any other call of the query engine leaves the catalog as it is.
Other == ret'.op \notin Calls /\ UNCHANGED entryOf

Next ==
    \/ Other
    \/ \E name \in Names : Get(name)
    \/ \E name \in Names, entry \in Entries : Create(name, entry) \/ Replace(name, entry)
    \/ Scan \/ Register

Spec == Init /\ [][Next]_vars

=============================================================================
