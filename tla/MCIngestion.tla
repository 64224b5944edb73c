----------------------------- MODULE MCIngestion -----------------------------
(***************************************************************************)
(* Small instances of Ingestion.  Run r1 registers three events, r2 one;   *)
(* the messages cover every outcome of ingest_text, including an event     *)
(* sent under the wrong run and an altered copy of a registered one.  Each *)
(* configuration picks the part its question needs.                        *)
(***************************************************************************)
EXTENDS Ingestion, TLC

CONSTANTS r1, r2, e1, e2, e3, e4, c1, c2

OneRun     == {r1}
TwoRuns    == {r1, r2}
OneSocket  == {c1}
TwoSockets == {c1, c2}

\* Two runs with one event each, one run with two events, one run with four.
ForeignEvents   == {e1, e4}
TwoEvents       == {e1, e2}
FourEvents      == {e1, e2, e3, e4}
ForeignManifest == r1 :> {e1} @@ r2 :> {e4}
TwoManifest     == r1 :> {e1, e2}
FourManifest    == r1 :> {e1, e2, e3, e4}

ForeignSequence == e1 :> 1 @@ e4 :> 1
TwoSequence     == e1 :> 1 @@ e2 :> 2
FourSequence    == e1 :> 1 @@ e2 :> 2 @@ e3 :> 3 @@ e4 :> 4

Valid(e, r)   == [shape |-> "valid", event |-> e, run |-> r, content |-> "manifest"]
Altered(e, r) == [Valid(e, r) EXCEPT !.content = "altered"]
Invalid(e, r) == [Valid(e, r) EXCEPT !.shape = "invalid"]
Malformed     == [shape |-> "malformed", event |-> NoEvent, run |-> NoRun,
                  content |-> "altered"]
Oversized     == [Malformed EXCEPT !.shape = "oversized"]

\* e4 belongs to r2: on a socket of r1 it is a mismatch or unregistered.
ForeignMessages == {Valid(e1, r1), Valid(e4, r2), Valid(e4, r1), Altered(e1, r1),
                    Invalid(e4, r2), Oversized}
TwoMessages     == {Valid(e1, r1), Valid(e2, r1), Altered(e1, r1), Malformed}
FourMessages    == {Valid(e, r1) : e \in FourEvents}
LiveMessages    == {Valid(e1, r1), Valid(e2, r1)}

Symmetry == Permutations(TwoSockets)

=============================================================================
