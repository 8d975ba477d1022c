--------------------------- MODULE LibusbDescriptor ---------------------------
(***************************************************************************)
(* The descriptors of a device as libusb reads them (linux_usbfs.c) and    *)
(* parses them (descriptor.c).  The buffer is read descriptor by           *)
(* descriptor and may end in the middle of one; the parsers are operators  *)
(* on what has been read.  A descriptor is its type, the length it claims, *)
(* how many descriptors it claims to be followed by, and a number of its   *)
(* own.  A parser only ever steps by claimed lengths, so what is in the    *)
(* bytes between does not matter.                                          *)
(***************************************************************************)
EXTENDS Integers, Sequences, FiniteSets, FiniteSetsExt, SequencesExt

CONSTANTS
    MaxDescriptors,  \* bound on the descriptors of a device
    MaxCut           \* bound on the bytes missing at the end

VARIABLES
    fromSysfs,   \* priv->sysfs_dir: else the file is of usbfs
    numConfigs,  \* bNumConfigurations
    buffer,      \* the descriptors that follow the one of the device
    cut          \* bytes of the last one that could not be read

descriptorVars == <<fromSysfs, numConfigs, buffer, cut>>

HeaderLength == 2
SizeOf == [config |-> 9, interface |-> 9, endpoint |-> 7, iad |-> 8, bos |-> 5, capability |-> 3]
MaxEndpoints == 32
Proper == {"endpoint", "interface", "config", "device"}

Descriptor(type, len, n, id) == [type |-> type, len |-> len, n |-> n, id |-> id]

\* What a device may send: sound descriptors, and some with a length that is
\* too small.  The number of a configuration is its wTotalLength.
Configs == {Descriptor("config", 9, n, total) : n \in 1..2, total \in {25, 34}}
Descriptors ==
    Configs \cup {Descriptor("config", 8, 1, 25)}
    \cup {Descriptor("interface", 9, n, 0) : n \in 0..2}
    \cup {Descriptor("interface", 9, 1, 1), Descriptor("interface", 8, 0, 1)}
    \cup {Descriptor("endpoint", 7, 0, 1), Descriptor("endpoint", 5, 0, 1)}
    \cup {Descriptor("iad", 8, 0, 0), Descriptor("other", 3, 0, 0), Descriptor("other", 1, 0, 0)}
Capabilities ==
    {Descriptor("bos", 5, n, 0) : n \in 1..2}
    \cup {Descriptor("capability", len, 0, 0) : len \in {2, 7}} \cup {Descriptor("other", 3, 0, 0)}

Length(descriptors) == FoldLeft(LAMBDA sum, d : sum + d.len, 0, descriptors)
Offset(i) == Length(SubSeq(buffer, 1, i - 1))
Size == Length(buffer) - cut

Init ==
    /\ fromSysfs \in BOOLEAN /\ numConfigs \in 1..2
    /\ buffer = <<>> /\ cut = 0

\* initialize_device() reads on until nothing more comes.  After a length that is
\* too small nothing else is ever looked at.
Read(d) ==
    /\ Len(buffer) < MaxDescriptors /\ cut = 0
    /\ IF buffer = <<>> THEN d \in Configs \/ d.type = "bos"
       ELSE /\ Last(buffer).len >= HeaderLength
            /\ d \in IF buffer[1].type = "bos" THEN Capabilities ELSE Descriptors
    /\ buffer' = Append(buffer, d)
    /\ UNCHANGED <<fromSysfs, numConfigs, cut>>
ReadShort(bytes) ==
    /\ cut = 0 /\ buffer # <<>> /\ bytes < Last(buffer).len
    /\ cut' = bytes
    /\ UNCHANGED <<fromSysfs, numConfigs, buffer>>

Next ==
    \/ \E d \in Descriptors \cup Capabilities : Read(d)
    \/ \E bytes \in 1..MaxCut : ReadShort(bytes)

Spec == Init /\ [][Next]_descriptorVars

-----------------------------------------------------------------------------
(* A configuration: parse_configuration(), parse_interface(),              *)
(* parse_endpoint().  They are given the descriptor they are at and the    *)
(* bytes left from there, and say where they have come to.                 *)

Error == [ok |-> FALSE]
Come(i, left, found) == [ok |-> TRUE, at |-> i, left |-> left, found |-> found]

\* The loops over the descriptors of a class or a vendor.
Skip[i \in Nat, left \in Int] ==
    IF left < HeaderLength THEN Come(i, left, "end")
    ELSE IF buffer[i].len < HeaderLength THEN Error
    ELSE IF buffer[i].len > left THEN Come(i, left, "short")
    ELSE IF buffer[i].type \in Proper THEN Come(i, left, "end")
    ELSE Skip[i + 1, left - buffer[i].len]

\* Mutant of ParseEndpoint: the length is not compared with what is left.
ParseEndpointAnyLength(i, left) ==
    IF left < HeaderLength THEN Error
    ELSE IF buffer[i].type # "endpoint" THEN Come(i, left, "none")
    ELSE IF buffer[i].len < SizeOf.endpoint THEN Error
    ELSE Skip[i + 1, left - buffer[i].len]

\* Nothing is found where no byte is taken.
ParseEndpoint(i, left) ==
    IF left < HeaderLength THEN Error
    ELSE IF buffer[i].type # "endpoint" THEN Come(i, left, "none")
    ELSE IF buffer[i].len < SizeOf.endpoint THEN Error
    ELSE IF buffer[i].len > left THEN Come(i, left, "none")
    ELSE Skip[i + 1, left - buffer[i].len]

ParseEndpoints[i \in Nat, left \in Int, n \in Nat, endpoints \in Seq(Nat)] ==
    IF n = 0 THEN Come(i, left, endpoints)
    ELSE LET e == ParseEndpoint(i, left)
         IN  IF ~e.ok THEN Error
             ELSE IF e.left = left THEN Come(i, left, endpoints)
             ELSE ParseEndpoints[e.at, e.left, n - 1, Append(endpoints, i)]

Alternates == [at : Nat, n : Nat, endpoints : Seq(Nat)]
Alternate(i, n, endpoints) == [at |-> i, n |-> n, endpoints |-> endpoints]

\* The alternate settings of an interface follow each other.
SameInterface(i, left, number) ==
    left >= SizeOf.interface /\ buffer[i].type = "interface" /\ buffer[i].id = number

ParseInterface[i \in Nat, left \in Int, alternates \in Seq(Alternates)] ==
    IF left < SizeOf.interface \/ buffer[i].type # "interface" THEN Come(i, left, alternates)
    ELSE IF buffer[i].len < SizeOf.interface THEN Error
    ELSE IF buffer[i].len > left THEN Come(i, left, alternates)
    ELSE IF buffer[i].n > MaxEndpoints THEN Error
    ELSE LET extra == Skip[i + 1, left - buffer[i].len]
             e == ParseEndpoints[extra.at, extra.left, buffer[i].n, <<>>]
             found == Append(alternates, Alternate(i, Len(e.found), e.found))
         IN  IF ~extra.ok THEN Error
             \* It returns with bNumEndpoints as it is, and no endpoints.
             ELSE IF extra.found = "short"
             THEN Come(extra.at, extra.left, Append(alternates, Alternate(i, buffer[i].n, <<>>)))
             ELSE IF ~e.ok THEN Error
             ELSE IF SameInterface(e.at, e.left, buffer[i].id) THEN ParseInterface[e.at, e.left, found]
             ELSE Come(e.at, e.left, found)

ParseInterfaces[i \in Nat, left \in Int, n \in Nat, interfaces \in Seq(Seq(Alternates))] ==
    IF n = 0 THEN Come(i, left, interfaces)
    ELSE LET extra == Skip[i, left]
             p == ParseInterface[extra.at, extra.left, <<>>]
         IN  IF ~extra.ok THEN Error
             ELSE IF extra.found = "short" THEN Come(extra.at, extra.left, interfaces)
             ELSE IF ~p.ok THEN Error
             ELSE IF p.left = extra.left THEN Come(p.at, p.left, interfaces)
             ELSE ParseInterfaces[p.at, p.left, n - 1, Append(interfaces, p.found)]

ParseConfiguration(i, size) ==
    IF \/ size < SizeOf.config \/ buffer[i].type # "config"
       \/ buffer[i].len < SizeOf.config \/ buffer[i].len > size
    THEN Error
    ELSE ParseInterfaces[i + 1, size - buffer[i].len, buffer[i].n, <<>>]

-----------------------------------------------------------------------------
(* The configurations of a device: parse_config_descriptors()              *)

\* The bytes to the next configuration; none if there is none.
SeekToNextConfig[i \in Nat, left \in Int, offset \in Nat] ==
    IF left < HeaderLength THEN Error
    ELSE IF buffer[i].type = "config" THEN Come(i, left, offset)
    ELSE IF buffer[i].len < HeaderLength \/ left < buffer[i].len THEN Error
    ELSE SeekToNextConfig[i + 1, left - buffer[i].len, offset + buffer[i].len]

\* A file of usbfs has them wTotalLength bytes apart.
ActualLength(i, left, idx) ==
    IF ~fromSysfs THEN Come(i, left, Min({buffer[i].id, left}))
    ELSE IF idx < numConfigs THEN SeekToNextConfig[i + 1, left - SizeOf.config, SizeOf.config]
    ELSE Come(i, left, left)

Ranges == Seq([at : Nat, len : Nat])
ParseConfigDescriptors[offset \in Nat, idx \in Nat, configs \in Ranges] ==
    LET left == Size - offset
        here == {i \in DOMAIN buffer : Offset(i) = offset}
        i == CHOOSE i \in here : TRUE
        length == ActualLength(i, left, idx)
    IN  IF idx > numConfigs THEN Come(0, left, configs)
        ELSE IF \/ left < SizeOf.config \/ here = {} \/ buffer[i].type # "config"
                \/ buffer[i].len < SizeOf.config
        THEN Error
        ELSE IF ~length.ok THEN Error
        ELSE ParseConfigDescriptors[offset + length.found, idx + 1,
                                    Append(configs, [at |-> i, len |-> length.found])]

\* What a device is given up for, and what libusb_get_config_descriptor() then
\* parses: no more than wTotalLength.
DeviceConfigs == IF buffer = <<>> THEN Error ELSE ParseConfigDescriptors[0, 1, <<>>]
GetConfigDescriptor(c) == ParseConfiguration(c.at, Min({buffer[c.at].id, c.len}))
GetConfigDescriptorByValue(c) == ParseConfiguration(c.at, c.len)

\* find_endpoint(): its alternate setting and its place there; none if not found.
FindEndpoint(interfaces, address) ==
    UNION {UNION {{<<a.at, k>> : k \in {k \in 1..a.n : buffer[a.endpoints[k]].id = address}}
                  : a \in Range(f)} : f \in Range(interfaces)}

-----------------------------------------------------------------------------
(* Interface associations and capabilities *)

\* The first pass compares each length with that of the whole, the second goes
\* through what is left.
CountIads[i \in Nat, consumed \in Nat, size \in Int, n \in Nat] ==
    IF consumed >= size THEN Come(i, 0, n)
    ELSE IF buffer[i].len < HeaderLength \/ buffer[i].len > size THEN Error
    ELSE CountIads[i + 1, consumed + buffer[i].len, size,
                   IF buffer[i].type = "iad" THEN n + 1 ELSE n]
FillIads[i \in Nat, left \in Int, filled \in Seq(Nat)] ==
    LET found == IF buffer[i].type = "iad" /\ left >= SizeOf.iad THEN Append(filled, i) ELSE filled
    IN  IF left - buffer[i].len < HeaderLength THEN found
        ELSE FillIads[i + 1, left - buffer[i].len, found]

ParseCapabilities[i \in Nat, left \in Int, n \in Nat, found \in Seq(Nat)] ==
    IF \/ n = 0 \/ left < SizeOf.capability \/ buffer[i].type # "capability"
    THEN Come(i, left, found)
    ELSE IF buffer[i].len < SizeOf.capability THEN Error
    ELSE IF buffer[i].len > left THEN Come(i, left, found)
    ELSE ParseCapabilities[i + 1, left - buffer[i].len, n - 1, Append(found, i)]
ParseBos(size) ==
    IF size < SizeOf.bos \/ buffer[1].len > size THEN Error
    ELSE ParseCapabilities[2, size - buffer[1].len, buffer[1].n, <<>>]

\* libusb_get_string_descriptor_ascii(): the characters it stores of a descriptor
\* of this length in a buffer of that; a zero follows them.
AsciiLength(len, room) == Max({0, Min({room - 1, (len - 2) \div 2})})

-----------------------------------------------------------------------------
(* Properties *)

IsConfig == buffer # <<>> /\ buffer[1].type = "config"
Whole(i) == Offset(i) + buffer[i].len <= Size
Flat(f) == FoldLeft(LAMBDA all, a : all \o <<a.at>> \o a.endpoints, <<>>, f)

\* parse_configuration(): whatever the device sends, what is reported of it has
\* been read, whole, once and in order; alternate settings are of one interface.
\* bNumEndpoints counts the endpoints of each (libusb.h:774) unless the data ends
\* inside of it: parsing then stops with the number set and no endpoints.
ParsedIsThere ==
    \A c \in Range(IF DeviceConfigs.ok THEN DeviceConfigs.found ELSE <<>>) :
    \A p \in {GetConfigDescriptor(c), GetConfigDescriptorByValue(c)} : p.ok =>
        LET all == FoldLeft(LAMBDA before, f : before \o Flat(f), <<c.at>>, p.found)
        IN  /\ \A i, j \in DOMAIN all : i < j => all[i] < all[j]
            /\ \A i \in Range(all) : Whole(i)
            /\ Len(p.found) <= buffer[c.at].n
            /\ \A f \in Range(p.found) :
                 /\ f # <<>> /\ \A a \in Range(f) : buffer[a.at].id = buffer[f[1].at].id
                 /\ \A a \in Range(f) : Len(a.endpoints) <= a.n /\ a.n <= buffer[a.at].n
                 /\ \A a \in Range(f) : \/ Len(a.endpoints) = a.n
                                         \/ (a.at = Last(all) /\ a.endpoints = <<>>)

\* parse_iad_array(): no more associations are filled in than were counted, and
\* as many unless the last is not whole.  parse_bos() reports what is there.
CountsAreRight ==
    /\ IsConfig => LET n == CountIads[1, 0, Size, 0]
                   IN  n.ok => LET filled == FillIads[1, Size, <<>>]
                               IN  /\ Len(filled) <= n.found /\ (cut = 0 => Len(filled) = n.found)
                                   /\ \A i \in Range(filled) : Whole(i)
    /\ buffer # <<>> /\ ~IsConfig =>
         LET bos == ParseBos(Size)
         IN  bos.ok => Len(bos.found) <= buffer[1].n /\ \A i \in Range(bos.found) : Whole(i)
    /\ \A len \in 2..8, room \in 1..5 :
         LET n == AsciiLength(len, room) IN n < room /\ 2 + 2 * n <= Max({2, len})

\* A configuration as the standard describes it, from its place to the end.
Interfaces(i) == {p \in DOMAIN buffer : p > i /\ buffer[p].type = "interface"}
EndpointsOf(p) ==
    {q \in DOMAIN buffer : /\ q > p /\ buffer[q].type = "endpoint"
                           /\ ~\E r \in Interfaces(p) : r < q}
Starts(i) ==
    {p \in Interfaces(i) : LET before == Interfaces(i) \cap 1..(p - 1)
                           IN  before = {} \/ buffer[Max(before)].id # buffer[p].id}
WellFormed ==
    /\ IsConfig /\ cut = 0 /\ numConfigs = 1 /\ buffer[1].id = Size /\ buffer[1].n = Cardinality(Starts(1))
    /\ \A i \in DOMAIN buffer : i > 1 => buffer[i].type # "config"
    /\ \A i \in DOMAIN buffer :
         buffer[i].len >= IF buffer[i].type = "other" THEN HeaderLength ELSE SizeOf[buffer[i].type]
    /\ \A p \in Interfaces(1) : buffer[p].n = Cardinality(EndpointsOf(p))
    /\ \A q \in DOMAIN buffer : buffer[q].type = "endpoint" => \E p \in Interfaces(1) : q \in EndpointsOf(p)

\* All of a well-formed configuration is found: its interfaces, their alternate
\* settings and their endpoints, and nothing is left over.
WellFormedIsParsed ==
    WellFormed =>
        LET c == DeviceConfigs.found[1]
            p == GetConfigDescriptor(c)
        IN  /\ DeviceConfigs.ok /\ p.ok
            /\ {f[1].at : f \in Range(p.found)} = Starts(1)
            /\ UNION {{<<a.at, Range(a.endpoints)>> : a \in Range(f)} : f \in Range(p.found)}
                 = {<<i, EndpointsOf(i)>> : i \in Interfaces(1)}
            /\ (Interfaces(1) # {} => p.left = 0)
            /\ (\E q \in DOMAIN buffer : buffer[q].type = "endpoint") <=> FindEndpoint(p.found, 1) # {}

\* What libusb makes of descriptors is in them, whole and in their order,
\* whatever their lengths say, and is all of them if they are well-formed.
DescriptorInv == ParsedIsThere /\ CountsAreRight /\ WellFormedIsParsed
=============================================================================
