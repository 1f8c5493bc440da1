--------------------------- MODULE MCDiagnostics ---------------------------
(* Diagnostics on small instances: queries are interchangeable, and so are  *)
(* files.  A query is one call, so a run may begin where earlier calls have *)
(* already opened as many documents as the store holds.                     *)
EXTENDS Diagnostics, TLC

QuerySymmetry == Permutations(Queries)
Symmetry == QuerySymmetry \cup Permutations(Files)

Warm ==
  /\ disk = [f \in Files |-> [at |-> 0, exists |-> TRUE]]
  /\ scanned = disk
  /\ recent \in {s \in [1..MaxOpen -> Files] : \A i, j \in 1..MaxOpen : s[i] = s[j] => i = j}
  /\ docs = [f \in Files |-> IF \E i \in DOMAIN recent : recent[i] = f
                               THEN [NoDoc EXCEPT !.version = 1] ELSE NoDoc]
  /\ overlay = [f \in Files |-> [version |-> docs[f].version, text |-> 0]]
  /\ cached = [f \in Files |-> 0]
  /\ push = [f \in Files |-> Nothing] /\ merged = [f \in Files |-> Nothing]
  /\ query = [q \in Queries |-> Idle]
  /\ edits = 0 /\ gate = None /\ out = <<>> /\ reopened = {} /\ behind = {}

WarmSpec == (Init \/ Warm) /\ [][Next]_vars
============================================================================
