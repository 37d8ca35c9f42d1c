--------------------------- MODULE MCConfigChange ---------------------------
(* The documents from which the user's edits start: none, one with a TUN   *)
(* device, a port and an HTTP controller, one with a DNS section.          *)
EXTENDS ConfigChange, TLC

TunDoc ==
  ("tun" :> Map([enable |-> Bool(TRUE), mtu |-> Num(1)])) @@ ("mixed-port" :> Num(7890))
    @@ ("external-controller" :> Str("any:9090")) @@ ("rules" :> List(1))
DnsDoc ==
  ("dns" :> Map([listen |-> Str(""), nameserver |-> Str("b")])) @@ ("allow-lan" :> Bool(TRUE))
    @@ ("secret" :> Str("t"))
Bases == {<<>>, TunDoc, DnsDoc}

(* What the user may write at each path: a value of each kind that the     *)
(* tables tell apart; "profile" and "gateway" are fields no table names.   *)
UserCandidates ==
  ("mixed-port" :> {Num(0), Num(7890), Str("7890")}) @@ ("allow-lan" :> {Bool(TRUE), Bool(FALSE), Null})
    @@ ("ss-config" :> {Str(""), Str("ss")}) @@ ("listeners" :> {List(0), List(1)})
    @@ ("extra-port" :> {Num(1)}) @@ ("rules" :> {List(1), List(2)}) @@ ("secret" :> {Str("s")})
    @@ ("external-controller" :> {Str("any:9090"), Str("")})
    @@ ("external-controller-unix" :> {Str("mine")}) @@ ("profile" :> {Str("p")})
    @@ ("tun" :> {Str("on"), Map(<<>>)}) @@ ("tuic-server" :> {Map(<<>>)}) @@ ("dns" :> {Map(<<>>)})
UserNested ==
  ("tun" :> [enable |-> {Bool(TRUE), Bool(FALSE)}, mtu |-> {Num(1), Num(2), Str("big")}, gateway |-> {Num(1)}])
    @@ ("tuic-server" :> [enable |-> {Bool(TRUE), Bool(FALSE)}])
    @@ ("dns" :> [listen |-> {Str(""), Str(":53")}, nameserver |-> {Str("a")}])
=============================================================================
