------------------------------ MODULE MCStartup ------------------------------
(* Startup for TLC: a few files built around one that works. *)
EXTENDS Startup

\* The settings of TNFSDRV.CFG, for a server of the model.
Usual == << Section("default"), Key("servername", "s1"), Key("localip", "set") >>

\* What may follow: another profile, settings the checks refuse, numbers beyond
\* 16 bits, a name for the server, a key the code does not know.
Lines == { Section("default"), Section("other"), Nothing,
           Key("servername", "s2"), Key("servername", "tnfs.example"),
           Key("driveletter", 5), Key("driveletter", 0), Key("driveletter", -1),
           Key("port", 70000), Key("port", 40000), Key("drive", 5) }

Tails == {<<>>} \cup {<<l>> : l \in Lines} \cup {<<Section("other"), l>> : l \in Lines}

MCFiles ==
    {<<>>} \cup {Usual \o t : t \in Tails}
    \cup {<<Key("servername", "s2")>> \o Usual \o <<Section("other"), l>> : l \in
             {Key("protocol", "TCP"), Key("localip", NoText), Key("cache", "yes"), Key("cache_dirs", 300)}}
    \cup {Usual \o <<Section("other"), l, Section("default"), m>> : l, m \in
             {Key("servername", "s2"), Key("driveletter", 5), Key("cache_timeout_seconds", 65836)}}

\* The answer of each host, a request of the server's, a datagram, a runt.
MCFrames ==
    {[type |-> "ARP", long |-> TRUE, reply |-> TRUE, from |-> h] : h \in {"s1", "s2"}}
    \cup {[type |-> "ARP", long |-> TRUE, reply |-> FALSE, from |-> "s1"],
          [type |-> "IP", long |-> TRUE, reply |-> TRUE, from |-> "s1"],
          [type |-> "ARP", long |-> FALSE, reply |-> TRUE, from |-> "s1"]}

MCMac == [h \in {"s1", "s2"} |-> h \o "-mac"]
=============================================================================
