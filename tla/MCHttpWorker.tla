---------------------------- MODULE MCHttpWorker ----------------------------
(***************************************************************************)
(* HttpWorker on small instances for TLC.                                  *)
(***************************************************************************)
EXTENDS HttpWorker, TLC

\* A request with a header line; one after an empty line and longer than
\* MaxLine; an unknown method; another path; no path; a line never ended.
SmallRequests ==
  {<<"GE", "T", "_", "U", "N", "H", "N">>,
   <<"N", "GE", "T", "_", "U", "_", "H", "N">>,
   <<"X", "_", "U", "N">>,
   <<"GE", "T", "_", "V", "N">>,
   <<"GE", "T", "N", "H", "N">>,
   <<"GE", "T">>}

\* For two readers: a request line and the beginning of what looks like another.
SharedRequests == {<<"GE", "T", "N", "GE">>}

\* No definition names a reader.
Interchangeable == Permutations(Readers)

=============================================================================
