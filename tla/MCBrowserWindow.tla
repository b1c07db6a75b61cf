---------------------------- MODULE MCBrowserWindow ----------------------------
(***************************************************************************)
(* An instance of BrowserWindow: a page, two routes of the application, a  *)
(* demo under its own address and under the address of a site, and two     *)
(* addresses of saved sessions: no route matches the one any more, and the *)
(* other is that of a site which is no demo.                               *)
(***************************************************************************)
EXTENDS BrowserWindow

App(path) == [kind |-> "app", http |-> FALSE, path |-> path]
MCParsed == [newtab |-> [kind |-> "newtab", http |-> FALSE, path |-> << >>],
             web |-> App(<<"web", "help">>),
             r1 |-> App(<<"orders">>), r2 |-> App(<<"orders", "7">>),
             q1 |-> App(<<"demos", "q">>),
             site |-> [App(<<"demos", "q">>) EXCEPT !.http = TRUE],
             gone |-> App(<<"gone">>),
             away |-> [App(<<"orders">>) EXCEPT !.http = TRUE]]
MCWorkerPatterns ==
    <<<<Literal("orders")>>, <<Literal("orders"), Parameter("id")>>>>
MCQmlDemoRoutes == <<[package |-> "q", path |-> <<"demos", "q">>]>>
MCWebPath == <<"web", "help">>

Saved == File([tabs |-> <<[id |-> 1,
                           snap |-> [kind |-> "app", address |-> "gone",
                                     history |-> <<"gone">>, at |-> 1]],
                          [id |-> 2, snap |-> NewSnapshot("r1")]>>,
               active |-> 2])
Away == File([tabs |-> <<[id |-> 1,
                          snap |-> [NewSnapshot("away") EXCEPT !.kind = "app"]]>>,
              active |-> 1])
With(file) == [EmptyDisk EXCEPT !.session = file]
Begin(file, n, addresses, may) ==
    [disk |-> With(file), inputs |-> n, visits |-> addresses, kinds |-> may]
Usual == {"web", "r1", "r2", "q1"}

\* Three commands against everything that moves by itself, two with a fault
\* among them, fewer where the disk is what matters.  Two commands are enough
\* for the launch of another package that is refused and the way back to a
\* restored Worker.
MCStarts == {Begin(Saved, 3, {"r2", "q1"}, {}), Begin(NoFile, 3, Usual, {}),
             Begin(Saved, 2, {"web", "r2"}, {"crash", "renderer"}),
             Begin(NoFile, 2, Usual, {"crash", "renderer"}),
             Begin(Saved, 1, Usual, {"disk", "die", "exit"}),
             Begin(NoFile, 2, Usual, {"disk", "die", "exit"}),
             Begin(Garbage, 1, Usual, {"disk", "die", "exit"}),
             Begin(Huge, 1, Usual, {"disk", "die", "exit"}),
             Begin(NoFile, 2, {"web", "r1"}, {"page"}),
             Begin(NoFile, 3, {"site", "r1", "q1"}, {}),
             Begin(NoFile, 2, {"site", "web", "gone"}, {"site", "exit"}),
             Begin(Away, 2, {"r1"}, {"exit"}),
             Begin(NoFile, 2, Usual, {"reject"}),
             Begin(Saved, 2, {"web", "r2", "q1"}, {"reject"})}
================================================================================
