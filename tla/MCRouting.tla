----------------------------- MODULE MCRouting -----------------------------
(***************************************************************************)
(* Small instances of Routing: entries that overlap, are spelled in        *)
(* different ways, answer one facade or both, or claim nothing.            *)
(***************************************************************************)
EXTENDS Routing, TLC

As(t) == [type |-> t, upper |-> FALSE]
Shout(t) == [type |-> t, upper |-> TRUE]
Ext(b) == [base |-> b, dotted |-> TRUE, upper |-> FALSE]

Outlook == <<"application", "vnd.ms-outlook">>
Csv     == <<"text", "csv">>
Plain   == <<"text", "plain">>
Pdf     == <<"application", "pdf">>
Ppt     == <<"application", "vnd.ms-powerpoint">>

MCExtMap == "msg" :> Outlook @@ "csv" :> Csv @@ "zip" :> Octet

MCEntries ==
    { [facades |-> Facades, mimes |-> {As(Outlook), As(NoType)}, exts |-> {}],
      [facades |-> {"docling"}, mimes |-> {Shout(<<"text", "*">>)},
       exts |-> {Ext("msg"), Ext("")}],
      [facades |-> {"external"}, mimes |-> {As(Pdf), As(<<"*", "*">>)},
       exts |-> {[base |-> "csv", dotted |-> FALSE, upper |-> TRUE]}],
      [facades |-> Facades, mimes |-> {As(<<"application", "*">>)}, exts |-> {Ext("csv")}] }

MCStrategies == {"", "mime", "extension", "extension_then_mime"}

MCUploads ==
    { [declared |-> d, sniff |-> s, ext |-> Ext(e)] :
        d \in {As(NoType), Shout(Octet), Shout(Pdf)},
        s \in {NoType, Octet, Ppt, Plain},
        e \in {"", "msg", "csv", "zip"} }

=============================================================================
