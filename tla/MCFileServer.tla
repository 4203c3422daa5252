---------------------------- MODULE MCFileServer -----------------------------
EXTENDS FileServer

MCChars == {"a", "b", "crlf", "boundary", Dashes}

\* A file of one byte or of none, each followed by a delimiter of at least 17
\* dashes; a file with 17 dashes in it; one whose delimiter has fewer dashes.
MCBodies == {<<"a", "crlf", Dashes>>, <<"crlf", Dashes>>, <<"b", Dashes, "a", "crlf", Dashes>>,
             <<"a", "b", "crlf", "boundary">>}

\* No Range header, "bytes=0-0", "0-", "1-", "-1", "1-3" (in some files, past the
\* end of others), "-3" (longer than some files), "0-4" (more than MaxInt), "-x".
MCRanges ==
  {<<>>, <<0, 0>>, <<0, Absent>>, <<1, Absent>>, <<Absent, 1>>, <<1, 3>>,
   <<Absent, 3>>, <<0, 4>>, <<Absent, NoNumber>>}
=============================================================================
