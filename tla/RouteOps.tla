-------------------------------- MODULE RouteOps --------------------------------
(***************************************************************************)
(* Which content an address stands for: runtime/router's RouteRegistry and *)
(* its pilot routes, MainWindow::resolveAddress, and the resolver that     *)
(* checks the addresses of a saved session.                                *)
(*                                                                         *)
(* What BrowserAddress::parse makes of an address is a parameter: its      *)
(* kind, its path as a sequence of decoded segments, and whether it is an  *)
(* http address.  A pattern is a sequence of segments, each a literal or a *)
(* parameter.                                                              *)
(***************************************************************************)
EXTENDS Naturals, Sequences, SequencesExt

CONSTANTS Parsed,          \* of an address: [kind, http, path]
          WorkerPatterns,  \* the patterns of the application's own routes
          QmlDemoRoutes,   \* a sequence of [package, path]
          WebPath,         \* the path of the one web route
          AppId            \* the configured, verified application

Addresses == DOMAIN Parsed

NoPackage == "none"
NoRoute == [engine |-> "Invalid", package |-> NoPackage, segments |-> << >>]
Literal(s) == [parameter |-> FALSE, value |-> s]
Parameter(name) == [parameter |-> TRUE, value |-> name]
Literals(path) == [i \in DOMAIN path |-> Literal(path[i])]
Route(engine, package, segments) ==
    [engine |-> engine, package |-> package, segments |-> segments]

\* The name of a parameter does not tell two patterns apart.
normalizedShape(segments) ==
    [i \in DOMAIN segments |-> IF segments[i].parameter THEN Parameter("")
                                                        ELSE segments[i]]
add(routes, record) ==
    IF \E i \in DOMAIN routes : normalizedShape(routes[i].segments)
                                  = normalizedShape(record.segments)
      THEN routes ELSE Append(routes, record)

hasHigherPrecedence(candidate, current) ==
    \E i \in DOMAIN candidate :
      /\ ~candidate[i].parameter /\ current[i].parameter
      /\ \A j \in 1 .. i - 1 : candidate[j].parameter = current[j].parameter

matches(segments, path) ==
    /\ Len(segments) = Len(path)
    /\ \A i \in DOMAIN path : segments[i].parameter \/ segments[i].value = path[i]

match(routes, path) ==
    FoldLeft(LAMBDA best, r :
               IF /\ matches(r.segments, path)
                  /\ \/ best = NoRoute
                     \/ hasHigherPrecedence(r.segments, best.segments)
                 THEN r ELSE best,
             NoRoute, routes)

createPilotRouteRegistry ==
    FoldLeft(add, << >>,
      [i \in DOMAIN WorkerPatterns |->
         Route("QmlWorker", AppId, WorkerPatterns[i])]
      \o [i \in DOMAIN QmlDemoRoutes |->
            Route("QmlWorker", QmlDemoRoutes[i].package,
                  Literals(QmlDemoRoutes[i].path))]
      \o <<Route("WebEngine", "web", Literals(WebPath))>>)

isQmlDemoPackage(package) ==
    \E i \in DOMAIN QmlDemoRoutes : QmlDemoRoutes[i].package = package
isQmlDemoRoute(package, path) ==
    [package |-> package, path |-> path] \in Range(QmlDemoRoutes)

\* The kind of tab that shows an address, and the package of its Worker.
resolveAddress(address) ==
    LET parsed == Parsed[address]
        r == match(createPilotRouteRegistry, parsed.path)
        refused == /\ parsed.http
                   /\ ~isQmlDemoRoute(r.package, parsed.path)
    IN  CASE parsed.kind = "newtab" -> [kind |-> "host", package |-> NoPackage]
          [] parsed.kind = "app" /\ ~refused /\ r.engine = "QmlWorker" ->
               [kind |-> "app", package |-> r.package]
          [] parsed.kind = "app" /\ ~refused /\ r.engine = "WebEngine" ->
               [kind |-> "web", package |-> NoPackage]
          [] OTHER -> [kind |-> "none", package |-> NoPackage]

KindOf == [a \in Addresses |-> resolveAddress(a).kind]
PackageOf == [a \in Addresses |-> resolveAddress(a).package]
RouteOf == [a \in Addresses |-> Parsed[a].path]
PackageOfRoute ==
    [path \in Range(RouteOf) |-> match(createPilotRouteRegistry, path).package]

\* RestoredAddressResolver.
restoredKind(address) ==
    LET parsed == Parsed[address]
        r == match(createPilotRouteRegistry, parsed.path)
    IN  CASE parsed.kind = "newtab" -> "host"
          [] parsed.kind = "app" /\ r.engine = "WebEngine" -> "web"
          [] parsed.kind = "app" /\ r.engine = "QmlWorker"
             /\ (r.package = AppId \/ isQmlDemoRoute(r.package, parsed.path)) ->
               "app"
          [] OTHER -> "error"
RestoredKind == [a \in Addresses |-> restoredKind(a)]
================================================================================
