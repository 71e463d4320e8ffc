---------------------------- MODULE MCAsyncTasks ----------------------------
(***************************************************************************)
(* Small instances of AsyncTasks.  The constants that are the same in all  *)
(* runs are defined here; the .cfg files choose the rest.                  *)
(***************************************************************************)
EXTENDS AsyncTasks

CONSTANTS k1, k2, i1, e1, e2

MCKeys == {k1, k2}
MCOneKey == {k1}
MCIdemKeys == {i1}
MCEngines == {e1, e2}
MCOneEngine == {e1}
MCTwoKinds == {"markdown", "png"}
MCOneKind == {"markdown"}

Upload(caller, key) ==
    [caller |-> caller, idem |-> key, mode |-> "file",
     enabled |-> TRUE, wellFormed |-> TRUE, files |-> <<1>>, route |-> e1]

\* Two callers who happen to choose the same Idempotency-Key.
DedupeInputs == {[Upload(k, i1) EXCEPT !.files = <<>>] : k \in MCKeys}

DedupeOneCaller == {[Upload(k1, i1) EXCEPT !.files = <<>>]}

\* Every way a request can be shaped or refused: MaxBlobBytes = 2 and
\* MaxTotalBytes = 3 in the run that uses it.
ShapeInputs ==
    { Upload(None, None),
      Upload(None, i1),
      [Upload(k1, i1) EXCEPT !.files = <<>>],
      [Upload(k1, i1) EXCEPT !.files = <<2, 1>>],
      [Upload(k1, i1) EXCEPT !.files = <<2, 2>>],
      [Upload(k1, i1) EXCEPT !.files = <<3>>],
      [Upload(k1, None) EXCEPT !.enabled = FALSE],
      [Upload(k1, None) EXCEPT !.wellFormed = FALSE],
      [Upload(k1, None) EXCEPT !.route = None],
      [Upload(k1, None) EXCEPT !.mode = "process"],
      [Upload(k1, None) EXCEPT !.mode = "process", !.route = None],
      [Upload(k1, None) EXCEPT !.mode = "source", !.files = <<>>] }

SubmitInputs == ShapeInputs \cup DedupeInputs

\* A worker's engine, and one that only the submitting replica knows.
WorkInputs ==
    { Upload(k1, None),
      [Upload(k1, None) EXCEPT !.route = e2] }

=============================================================================
