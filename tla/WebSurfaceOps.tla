------------------------------ MODULE WebSurfaceOps ------------------------------
(***************************************************************************)
(* runtime/webengine/WebSurface: which of the notifications of its page    *)
(* belong to the load it waits for.  An operation gives the surface it     *)
(* leaves and the signals it emits, in order: "loading", "idle" (the two   *)
(* values of loadingChanged) and "finished".                               *)
(*                                                                         *)
(* s.page is the page itself, external: the url it was told to show, where *)
(* its load is, a replaced load whose end it has still to report, the      *)
(* document it holds, and whether its load was told to stop.  A surface    *)
(* shows its registered entry or its trusted error page.  Titles, progress *)
(* and freezing are left out.                                              *)
(***************************************************************************)
EXTENDS Naturals, Sequences

NoPage == [url |-> "none", load |-> "none", old |-> "none", doc |-> "none",
           stopping |-> FALSE]
\* activeLoadIncarnation_ is always nav; the terminal and the requested stop
\* are flags of nav.
NewSurface ==
    [nav |-> 0, awaits |-> FALSE, differs |-> FALSE, expects |-> "none",
     started |-> FALSE, terminal |-> FALSE, stopped |-> FALSE,
     loading |-> FALSE, page |-> NoPage]

Emit(s, signals) == [s |-> s, emits |-> signals]

setLoading(s, loading) ==
    Emit([s EXCEPT !.loading = loading],
         IF s.loading = loading THEN << >>
           ELSE <<IF loading THEN "loading" ELSE "idle">>)

setUrl(page, url) ==
    [page EXCEPT !.url = url, !.load = "requested", !.stopping = FALSE,
                 !.old = IF page.load = "started" THEN page.url ELSE @]

\* beginNavigation, and the page is told.
beginLoad(s, url) ==
    setLoading([s EXCEPT !.nav = @ + 1, !.differs = s.page.url # url,
                         !.expects = url, !.stopped = FALSE,
                         !.terminal = FALSE, !.awaits = TRUE,
                         !.started = FALSE, !.page = setUrl(@, url)],
               FALSE)

navigate(s) == beginLoad(s, "entry")
loadTrustedError(s) == beginLoad(s, "error")

stopLoad(s) ==
    [s EXCEPT !.stopped = TRUE, !.page.stopping = s.page.load # "none"]

\* observeLoadingChange.  A start nobody waited for is a load of the page's
\* own making.
observeStart(s) ==
    LET s1 == [s EXCEPT !.awaits = FALSE, !.differs = FALSE,
                        !.started = TRUE, !.terminal = FALSE]
    IN  IF s.awaits THEN Emit(s1, << >>)
          ELSE setLoading([s1 EXCEPT !.nav = @ + 1, !.expects = s.page.url,
                                     !.stopped = FALSE], FALSE)

acceptsEnd(s, url) ==
    /\ url = s.expects /\ s.page.load # "started"
    /\ IF s.awaits THEN s.differs /\ s.page.url = s.expects ELSE s.started
observeEnd(s) ==
    [s EXCEPT !.awaits = FALSE, !.differs = FALSE, !.started = FALSE,
              !.terminal = TRUE]

\* handleLoadingChange, queued with the load it was observed for.
handleLoadingChange(s, e) ==
    LET done == setLoading([s EXCEPT !.terminal = FALSE, !.stopped = FALSE],
                           FALSE)
        failed == setLoading([s EXCEPT !.terminal = FALSE], FALSE)
        error == loadTrustedError(failed.s)
    IN  CASE e.nav # s.nav -> Emit(s, << >>)
          [] e.nav = s.nav /\ e.status = "Started" -> setLoading(s, TRUE)
          [] e.nav = s.nav /\ e.status = "Denied" -> loadTrustedError(s)
          [] OTHER ->
               IF ~s.terminal THEN Emit(s, << >>)
                 ELSE IF e.status = "Failed" /\ ~s.stopped /\ e.url # "error"
                 THEN Emit(error.s, failed.emits \o error.emits)
                 ELSE Emit(done.s, Append(done.emits, "finished"))
================================================================================
