------------------------------- MODULE MCDNL -------------------------------
(* A top design with an input, an output and two instances of a design     *)
(* that holds a driver and an assign, connected in different ways, with    *)
(* and without constant nets on both levels.                               *)
EXTENDS DNL

CONSTANTS w1, w2

AsWiring(C, f) == [c \in Range(C) |-> f[CHOOSE x \in 1 .. Len(C) : C[x] = c]]

MCInstancesOf ==
  "top" :> <<"sub", "asg", "sub">> @@ "sub" :> <<"drv", "load">>
    @@ "drv" :> <<>> @@ "load" :> <<>> @@ "asg" :> <<>>

MCDirections ==
  "top" :> <<"Input", "Output">> @@ "sub" :> <<"Inout">> @@ "drv" :> <<"Output">>
    @@ "load" :> <<"Input">> @@ "asg" :> <<"Input", "Output">>

MCDesignAt ==
  <<>> :> "top" @@ <<1>> :> "sub" @@ <<2>> :> "asg" @@ <<3>> :> "sub"
    @@ <<1, 1>> :> "drv" @@ <<1, 2>> :> "load" @@ <<3, 1>> :> "drv" @@ <<3, 2>> :> "load"

TopComponents == <<<<1, 1>>, <<3, 1>>, <<2, 1>>, <<2, 2>>, <<0, 1>>, <<0, 2>>>>

(* Two drivers on a net, an assign between two nets, a net on both sides   *)
(* of an assign, an input that meets a driver, nets no driver is on.       *)
TopWirings ==
  {<<1, 1, 0, 0, 0, 1>>, <<1, 2, 1, 2, 0, 0>>, <<1, 0, 1, 1, 0, 0>>, <<1, 2, 0, 2, 1, 0>>,
   <<0, 0, 1, 0, 0, 1>>, <<1, 1, 0, 2, 2, 2>>}

SubComponents == <<<<0, 1>>, <<1, 1>>, <<2, 1>>>>

(* Driven and read through the terminal, only read, read by itself. *)
SubWirings == {<<1, 1, 1>>, <<1, 0, 1>>, <<1, 2, 2>>}

MCWirings ==
  {"top" :> AsWiring(TopComponents, f) @@ "sub" :> AsWiring(SubComponents, g)
     @@ "drv" :> (<<0, 1>> :> 0) @@ "load" :> (<<0, 1>> :> 1)
     @@ "asg" :> (<<0, 1>> :> 1 @@ <<0, 2>> :> 1) :
     f \in TopWirings, g \in SubWirings}

MCTypings ==
  {<<>>, <<"top", 1>> :> "CONST0" @@ <<"sub", 1>> :> "CONST1"}

ASSUME MCAssumption == PlainLeaves /\ OneChildNets
=============================================================================
