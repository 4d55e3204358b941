------------------------------- MODULE Config -------------------------------
(***************************************************************************)
(* TNFSDRV.CFG as config.c reads it.  A file is the sequence of the lines  *)
(* that fgets returns, each as what the parser makes of it: the head of a  *)
(* section, a key with its value, or nothing (blank, a comment, no '=', an *)
(* empty key, a '[' with no ']').  A value is what its key makes of the    *)
(* text: a text, the number it spells, a letter's index (-1: no letter).   *)
(* Names and keys are compared without case.  A missing file reads as      *)
(* the empty one.                                                          *)
(***************************************************************************)
EXTENDS Integers, Sequences

Section(name) == [is |-> "section", name |-> name]
Key(key, value) == [is |-> "key", key |-> key, value |-> value]
Nothing == [is |-> "nothing"]
NoText == ""

TextKeys == {"servername", "serverroot", "protocol", "localip"}

\* int is 16 bits wide.
Int16(n) == LET w == n % 65536 IN IF w < 32768 THEN w ELSE w - 65536

Accepts(key, value) ==
    CASE key \in TextKeys \cup {"cache"} -> TRUE
      [] key \in {"port", "cache_timeout_seconds"} -> Int16(value) > 0
      [] key = "driveletter" -> value \in 0 .. 25
      [] key = "packetint" -> value \in 1 .. 255
      [] key = "cache_dirs" -> Int16(value) >= 0
      [] OTHER -> FALSE      \* not a key that means anything

Stored(key, value) ==
    CASE key \in {"port", "cache_timeout_seconds"} -> Int16(value)
      [] key = "cache" -> value = "on"
      [] key = "cache_dirs" -> IF Int16(value) > 255 THEN 255 ELSE Int16(value)
      [] OTHER -> value

ApplyKey(cfg, line) ==
    IF Accepts(line.key, line.value)
    THEN [cfg EXCEPT ![line.key] = Stored(line.key, line.value)]
    ELSE cfg

\* Mutant: the scan of a section goes on into the next one.
ApplyLineSticky(section, s, line) ==
    CASE line.is = "section" -> [s EXCEPT !.in = s.in \/ line.name = section]
      [] line.is = "key" /\ s.in -> [s EXCEPT !.cfg = ApplyKey(s.cfg, line)]
      [] OTHER -> s

\* One line of apply_section: s.in says whether the scan is in the section.
ApplyLine(section, s, line) ==
    CASE line.is = "section" -> [s EXCEPT !.in = line.name = section]
      [] line.is = "key" /\ s.in -> [s EXCEPT !.cfg = ApplyKey(s.cfg, line)]
      [] OTHER -> s

ApplySection(file, section, cfg) ==
    LET scan[i \in 0 .. Len(file)] ==
            IF i = 0 THEN [in |-> FALSE, cfg |-> cfg]
            ELSE ApplyLine(section, scan[i - 1], file[i])
    IN  scan[Len(file)].cfg

ConfigDefaults ==
    [servername |-> NoText, serverroot |-> "/", protocol |-> "UDP", port |-> 16384,
     driveletter |-> 13, localip |-> NoText, packetint |-> 96, cache |-> TRUE,
     cache_timeout_seconds |-> 300, cache_dirs |-> 1]

ConfigLoad(file, profile) ==
    LET base == ApplySection(file, "default", ConfigDefaults) IN
    IF profile = "default" THEN base ELSE ApplySection(file, profile, base)

-----------------------------------------------------------------------------

\* What the file says, independently of how it is scanned: a key has the value
\* of its last acceptable assignment under the profile's heading, if there is
\* none of the last under [default], if there is none the built-in one.
Under(file, section) ==
    {i \in DOMAIN file :
        \E h \in 1 .. i : /\ file[h] = Section(section)
                          /\ \A j \in h + 1 .. i : file[j].is # "section"}
Assignments(file, section, key) ==
    {i \in Under(file, section) :
        file[i].is = "key" /\ file[i].key = key /\ Accepts(key, file[i].value)}
LastOf(S) == CHOOSE i \in S : \A j \in S : j <= i
Meaning(file, profile) ==
    [key \in DOMAIN ConfigDefaults |->
        LET own == Assignments(file, profile, key)
            general == Assignments(file, "default", key)
        IN  IF own # {} THEN Stored(key, file[LastOf(own)].value)
            ELSE IF general # {} THEN Stored(key, file[LastOf(general)].value)
            ELSE ConfigDefaults[key]]
=============================================================================
