----------------------------- MODULE MCVscCharm -----------------------------
(* Instances of VscCharm for TLC: with all of the options, for the runs     *)
(* that follow the "or" of hooks.py:107-116 from one to the next, and with  *)
(* those that decide which of URL and address is compared, where much else  *)
(* happens.  The operator changes the URL, the address and the domain.      *)
EXTENDS VscCharm

MCAllVmOptions ==
  <<"vsc-image-name", "vsc-template-name", Url, "vsc-vm-disk-size", Address,
    "vsc-vm-default-gw", "vsc-vm-dns-server", "vsc-vm-subnet-mask-length",
    "bridge-name", "vsc-vm-memory">>
MCAllSvcOptions == <<"admin-user", Domain, "admin-password">>
MCAllRequired   == {Address, "vsc-vm-default-gw", "vsc-vm-dns-server",
                    "vsc-vm-subnet-mask-length", Url}

MCVmOptions  == <<"vsc-image-name", "vsc-template-name", Url, Address>>
MCSvcOptions == <<"admin-user", Domain>>
MCRequired   == {Url, Address}

\* Url "u1", address "a1", no domain, some value for each of the others.
DefaultsOf(options) ==
  [o \in options |-> CASE o = Url     -> "u1"
                       [] o = Address -> "a1"
                       [] o = Domain  -> None
                       [] OTHER       -> "default"]

MCDefaults    == DefaultsOf(SeqElems(MCVmOptions) \cup SeqElems(MCSvcOptions))
MCAllDefaults ==
  DefaultsOf(SeqElems(MCAllVmOptions) \cup SeqElems(MCAllSvcOptions))

\* A unit deployed with xmpp-cluster-domain-name.
MCWithDomain == [MCDefaults EXCEPT ![Domain] = "x1"]

\* What the operator may change.
ValuesOf(defaults) ==
  [o \in DOMAIN defaults |-> CASE o = Url     -> {"u1", "u2"}
                               [] o = Address -> {"a1", "a2", None}
                               [] o = Domain  -> {"x1", None}
                               [] OTHER       -> {defaults[o]}]

MCValues    == ValuesOf(MCDefaults)
MCAllValues == ValuesOf(MCAllDefaults)

\* Where much fails: another URL, or no address.
MCFewValues == [MCValues EXCEPT ![Address] = {"a1", None}, ![Domain] = {None}]

\* Where all comes to rest: an address is always given.
MCGivenValues == [MCValues EXCEPT ![Address] = {"a1", "a2"}]

MCWhole   == [u \in {"u1", "u2"} |-> {"image", "template", "bof"}]
\* The second archive has no bof.cfg.
MCNoBof   == [u \in {"u1", "u2"} |->
                IF u = "u1" THEN {"image", "template", "bof"}
                            ELSE {"image", "template"}]
\* Two archives of one name are unpacked over each other.
MCOneDir  == [u \in {"u1", "u2"} |-> "nuage-vsc.tar.gz"]
MCTwoDirs == [u \in {"u1", "u2"} |->
                IF u = "u1" THEN "vsc-1.tar.gz" ELSE "vsc-2.tar.gz"]

\* Everything but guestfish failing; and what a unit recovers from.
MCFaults == Faults \ {"guestfs"}
MCMild   == {"apt", "dns", "fetch", "upgrade"}
=============================================================================
