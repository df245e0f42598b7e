------------------------------- MODULE MCPwa --------------------------------
(***************************************************************************)
(* One or two open pages and two releases, so that a download may find the *)
(* remains of another one.                                                 *)
(***************************************************************************)
EXTENDS PwaHelper

CONSTANTS p1, p2, v1, v2

OnePage == {p1}
TwoPages == {p1, p2}
MCVersions == {v1, v2}
MCAnyArchive == {v1, v2, NoImage}

\* Every command that the scripts test for an error may fail, and a server
\* may send something else than the file.
Tested == {"curl", "http", "tar", "pv", "dd"}

NoFaults == {}
NoArchives == {}
UnzipFails == {"bsdtar"}

=============================================================================
