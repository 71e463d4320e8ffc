--------------------------- MODULE MCSyncConvert ---------------------------
(***************************************************************************)
(* Small instances of SyncConvert.                                         *)
(***************************************************************************)
EXTENDS SyncConvert

\* An empty file, one of two chunks, and two files.
Uploads == { <<0>>, <<2>>, <<1, 1>> }

\* Every pair of adapters.  Of the pairs that begin with docling, which have
\* many interleavings, one meets the two files.
FileRequests ==
    { q \in [mode: {"file"}, sizes: Uploads, limit: {0}, engine: Adapters, default: Adapters,
             isDefault: {FALSE}, fallback: {TRUE}] :
        q.sizes = <<1, 1>> /\ q.engine = "docling" => q.default = "external" }

DefaultRequests ==
    { [mode |-> "file", sizes |-> s, limit |-> 0, engine |-> d, default |-> d,
       isDefault |-> TRUE, fallback |-> TRUE] : s \in Uploads \cup {<<>>}, d \in Adapters }

PlainRequests ==
    { [mode |-> "file", sizes |-> <<2>>, limit |-> 0, engine |-> d, default |-> "tika",
       isDefault |-> FALSE, fallback |-> FALSE] : d \in Adapters }

SourceRequests ==
    { [mode |-> "source", sizes |-> <<>>, limit |-> 0, engine |-> d, default |-> d,
       isDefault |-> TRUE, fallback |-> TRUE] : d \in Adapters }

ProcessRequests ==
    [mode: {"process"}, sizes: {<<0>>, <<1>>, <<2>>, <<3>>}, limit: 0..2, engine: {"tika", "external", "none"},
     default: {"docling"}, isDefault: {FALSE}, fallback: {FALSE}]

MCRequests ==
    FileRequests \cup DefaultRequests \cup PlainRequests \cup SourceRequests
        \cup ProcessRequests

\* The primary engine is docling, whose producer outlives its call.
DoclingFirst == {q \in FileRequests : q.engine = "docling" /\ q.sizes = <<2>>}

=============================================================================
