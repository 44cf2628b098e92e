----------------------------- MODULE CatalogSet -----------------------------
(***************************************************************************)
(* The catalog set of the query engine (catalog_v2/catalog_set.rs): two    *)
(* hash maps, index to entry and name to index, and the last index handed  *)
(* out.  A hash map is walked in an order the program does not fix.        *)
(***************************************************************************)
EXTENDS Naturals, Sequences, FiniteSets, SequencesExt, TLC

CONSTANTS
    Names,           \* the names entries are created under
    Entries,         \* the values of CatalogEntry
    MaxEntries       \* bound on current_entry

VARIABLES
    cat,             \* the CatalogSet: [entries, mapping, current_entry]
    ret              \* the result of the last call

vars == <<cat, ret>>

Exists    == "CatalogEntryExists"
NotExists == "CatalogEntryNotExists"

\* CatalogSet::default()
Init ==
    /\ cat = [entries |-> <<>>, mapping |-> <<>>, current_entry |-> 0]
    /\ ret = [op |-> "none"]

\* The two nested `if let Some` of get_entry, get_mut_entry and replace_entry.
Found(set, name) ==
    name \in DOMAIN set.mapping /\ set.mapping[name] \in DOMAIN set.entries

\* What get_entry answers for name.
Lookup(set, name) ==
    IF Found(set, name) THEN set.entries[set.mapping[name]] ELSE NotExists

\* Faulty variant of Created: the entry goes under current_entry as it was.
CreatedInPlace(set, name, entry) ==
    [set EXCEPT !.entries = (set.current_entry :> entry) @@ @,
                !.mapping = (name :> set.current_entry) @@ @]

\* Faulty variant of Created: the name is mapped before the index is advanced.
CreatedMappedEarly(set, name, entry) ==
    [entries |-> (set.current_entry + 1 :> entry) @@ set.entries,
     mapping |-> (name :> set.current_entry) @@ set.mapping,
     current_entry |-> set.current_entry + 1]

\* create_entry past its check: the next index, the entry under it, the name
\* mapped to it.
Created(set, name, entry) ==
    LET index == set.current_entry + 1
    IN  [entries |-> (index :> entry) @@ set.entries,
         mapping |-> (name :> index) @@ set.mapping,
         current_entry |-> index]

\* create_entry
CreateEntry(name, entry) ==
    \/ /\ name \in DOMAIN cat.mapping
       /\ ret' = [op |-> "create", name |-> name, result |-> Exists]
       /\ UNCHANGED cat
    \/ /\ name \notin DOMAIN cat.mapping
       /\ cat.current_entry < MaxEntries
       /\ cat' = Created(cat, name, entry)
       /\ ret' = [op |-> "create", name |-> name, result |-> "Ok"]

\* get_entry
GetEntry(name) ==
    /\ ret' = [op |-> "get", name |-> name, result |-> Lookup(cat, name)]
    /\ UNCHANGED cat

\* Faulty variant of ReplaceEntry: the new entry goes under current_entry.
ReplaceEntryAtCurrent(name, new_entry) ==
    \/ /\ Found(cat, name)
       /\ cat' = [cat EXCEPT !.entries[cat.current_entry] = new_entry]
       /\ ret' = [op |-> "replace", name |-> name, result |-> "Ok"]
    \/ /\ ~Found(cat, name)
       /\ ret' = [op |-> "replace", name |-> name, result |-> NotExists]
       /\ UNCHANGED cat

\* replace_entry, and get_mut_entry with the caller writing new_entry through
\* the reference it is handed.
ReplaceEntry(name, new_entry) ==
    \/ /\ Found(cat, name)
       /\ cat' = [cat EXCEPT !.entries[cat.mapping[name]] = new_entry]
       /\ ret' = [op |-> "replace", name |-> name, result |-> "Ok"]
    \/ /\ ~Found(cat, name)
       /\ ret' = [op |-> "replace", name |-> name, result |-> NotExists]
       /\ UNCHANGED cat

\* scan_entries: the entries the callback accepts, in the order the hash map
\* yields them.
ScanEntries(accepted) ==
    /\ \E order \in SetToSeqs({i \in DOMAIN cat.entries : cat.entries[i] \in accepted}) :
          ret' = [op |-> "scan", result |-> [k \in DOMAIN order |-> cat.entries[order[k]]]]
    /\ UNCHANGED cat

Next ==
    \/ \E name \in Names, entry \in Entries :
          CreateEntry(name, entry) \/ ReplaceEntry(name, entry)
    \/ \E name \in Names : GetEntry(name)
    \/ \E accepted \in SUBSET Entries : ScanEntries(accepted)

Spec == Init /\ [][Next]_vars

-----------------------------------------------------------------------------
CatalogTypeOK ==
    /\ cat.current_entry \in 0..MaxEntries
    /\ DOMAIN cat.entries \subseteq 1..MaxEntries
    /\ \A i \in DOMAIN cat.entries : cat.entries[i] \in Entries
    /\ DOMAIN cat.mapping \subseteq Names

\* The two maps tell one story: every name leads to an entry, no two names to
\* the same one, and no entry is left without a name.  Then create_entry
\* refuses exactly the names get_entry finds, and replace_entry of one name
\* changes the entry of no other (create_entry: current_entry += 1 before the
\* two inserts).
NamesOwnTheirEntries ==
    /\ \A name \in DOMAIN cat.mapping : cat.mapping[name] \in DOMAIN cat.entries
    /\ \A n1, n2 \in DOMAIN cat.mapping : cat.mapping[n1] = cat.mapping[n2] => n1 = n2
    /\ DOMAIN cat.entries = {cat.mapping[name] : name \in DOMAIN cat.mapping}

\* The catalog set as its callers see it: the entry every name leads to.
NamedEntries == [name \in DOMAIN cat.mapping |-> Lookup(cat, name)]

CM == INSTANCE CatalogMap WITH entryOf <- NamedEntries

\* The catalog set implements the map of names to entries: create_entry and
\* the registration of the builtins add names and leave every existing name
\* with its entry, replace_entry and a write through get_mut_entry change the
\* entry of the one name they were given, every call answers by what the
\* names lead to, and no other call changes it, although the entries are
\* kept under indexes that the names only point at (create_entry, get_entry,
\* replace_entry, scan_entries, initialize).
ImplementsCatalogMap == CM!Spec

=============================================================================
