--------------------------- MODULE MC_DevicePlugins ---------------------------
(***************************************************************************)
(* The device plugins a server daemon may load: optdev (OptDev, with the   *)
(* machines of MC_OptDev) and xtpmdev (XtpmDev) on two Cray platforms.  A  *)
(* plugin owns its device and descriptors and shares no state with        *)
(* another, so a platform is chosen once and only its steps are taken: the *)
(* state space is the sum of the three, not their product.                 *)
(*                                                                         *)
(* xtpmdev, platform "xtpm": every counter file is written with its unit  *)
(* except that energy is absent, so power and max_power reads succeed and  *)
(* a readv meets a failing element beside good ones.                       *)
(* xtpmdev, platform "xtpm_bare": every file is present and power is       *)
(* published without " W", so energy and max_power reads succeed and a     *)
(* power read overruns strval and ends the process.                        *)
(***************************************************************************)
EXTENDS MC_OptDev

VARIABLES
  platform,                                        \* "optdev", "xtpm" or "xtpm_bare"
  xaDev, xaPub, xaFdOpen, xaFdGen, xaLast, xaCrashed, \* XtpmDev on "xtpm"
  xbDev, xbPub, xbFdOpen, xbFdGen, xbLast, xbCrashed  \* XtpmDev on "xtpm_bare"

xaVars == <<xaDev, xaPub, xaFdOpen, xaFdGen, xaLast, xaCrashed>>
xbVars == <<xbDev, xbPub, xbFdOpen, xbFdGen, xbLast, xbCrashed>>
mcVars == <<platform, vars, xaVars, xbVars>>

\* A 4-byte strval (20 in the code): "305 W" puts the blank in its last
\* byte.  readv and writev take two-element arrays.
XtA == INSTANCE XtpmDev
         WITH Values <- {7, 305}, BufLen <- 4, WBufLen <- 20, ArraySize <- 2,
              Bare <- {}, Missing <- {"energy"},
              devState <- xaDev, pub <- xaPub, fdOpen <- xaFdOpen,
              fdGen <- xaFdGen, last <- xaLast, crashed <- xaCrashed

XtB == INSTANCE XtpmDev
         WITH Values <- {7, 305}, BufLen <- 4, WBufLen <- 20, ArraySize <- 2,
              Bare <- {"power"}, Missing <- {},
              devState <- xbDev, pub <- xbPub, fdOpen <- xbFdOpen,
              fdGen <- xbFdGen, last <- xbLast, crashed <- xbCrashed

\* the variables of a plugin the daemon did not load
Off == "off"
OptOff == cpu = Off /\ pci = Off /\ e8 = Off /\ e0 = Off /\ dev = Off /\ fdOpen = Off /\ lastRead = Off
XaOff == xaDev = Off /\ xaPub = Off /\ xaFdOpen = Off /\ xaFdGen = Off /\ xaLast = Off /\ xaCrashed = Off
XbOff == xbDev = Off /\ xbPub = Off /\ xbFdOpen = Off /\ xbFdGen = Off /\ xbLast = Off /\ xbCrashed = Off

MCInit ==
  \/ platform = "optdev" /\ Init /\ XaOff /\ XbOff
  \/ platform = "xtpm" /\ OptOff /\ XtA!Init /\ XbOff
  \/ platform = "xtpm_bare" /\ OptOff /\ XaOff /\ XtB!Init

MCNext ==
  \/ platform = "optdev" /\ Next /\ UNCHANGED <<platform, xaVars, xbVars>>
  \/ platform = "xtpm" /\ XtA!Next /\ UNCHANGED <<platform, vars, xbVars>>
  \/ platform = "xtpm_bare" /\ XtB!Next /\ UNCHANGED <<platform, vars, xaVars>>

MCSpec == MCInit /\ [][MCNext]_mcVars

\* the properties of OptDev and XtpmDev (stated there), each on the
\* platforms that load the plugin
OptTypeOK               == platform = "optdev" => TypeOK
OptNodeTableExact       == platform = "optdev" => NodeTableExact
OptReadReturnsNodePower == platform = "optdev" => ReadReturnsNodePower

OnXtpm(pa, pb) == (platform = "xtpm" => pa) /\ (platform = "xtpm_bare" => pb)

XtTypeOK                   == OnXtpm(XtA!TypeOK, XtB!TypeOK)
XtReadReturnsPublished     == OnXtpm(XtA!ReadReturnsPublished, XtB!ReadReturnsPublished)
XtReadvElementsIndependent == OnXtpm(XtA!ReadvElementsIndependent, XtB!ReadvElementsIndependent)
XtWritevLastWins           == OnXtpm(XtA!WritevLastWins, XtB!WritevLastWins)
====
