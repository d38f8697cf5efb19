----------------------------- MODULE MCFormats ------------------------------
(* Short texts: what matters of one is its length and whether it is the one *)
(* that is asked for.                                                       *)
EXTENDS Formats

SomeAdapter == <<100>>
Url         == <<104, 116>>
Urls        == {Url}

Plain == [f \in Fields |->
            CASE f = AdapterName -> SomeAdapter
              [] f \in Booleans  -> FALSE
              [] f = Volume      -> 70
              [] f \in {6, 7, Endpoint, DeviceId, Credential} -> <<>>
              [] OTHER           -> <<97>>]
Synced == [Plain EXCEPT ![8] = TRUE, ![Enabled] = TRUE, ![Endpoint] = Url,
                        ![DeviceId] = <<48>>, ![Credential] = <<0, 255>>,
                        ![Volume] = 100]

\* Around the limits of a length's low byte and of a packet.
Long(n) == [Plain EXCEPT ![7] = [i \in 1 .. n |-> 120]]
Room    == MaxWireBytes - Len(Encode(Plain))

AllConfigs ==
  {Plain, Synced, Long(255), Long(256), Long(Room), Long(Room + 1)}
  \cup {[Plain EXCEPT ![Volume] = v] : v \in {0, 9, 10, 99, 100, 101, 255}}
  \cup {[Synced EXCEPT ![f] = <<>>] : f \in Texts}
  \cup {[Synced EXCEPT ![Endpoint] = <<104>>], [Plain EXCEPT ![AdapterName] = <<101>>]}

BytesTried == {0, 1, 2, 3, 13, 14, 48, 49, 57, 58}

\* "", "7", "007", "0100", "101", "255", "256", "300", "65541", "1a", ":"
VolumesWritten ==
  {<<>>, <<55>>, <<48, 48, 55>>, <<48, 49, 48, 48>>, <<49, 48, 49>>,
   <<50, 53, 53>>, <<50, 53, 54>>, <<51, 48, 48>>, <<54, 53, 53, 52, 49>>,
   <<49, 97>>, <<58>>}

Ends     == {0, 127, 128, 255}
SomePcms == UNION {[1 .. n -> Ends] : n \in 0 .. 4}
            \cup {[i \in 1 .. n |-> (i * 37) % 256] : n \in 5 .. 9}

SymbolsTried == {0, 1, 16, 63}

SomeWords == {<<w>> : w \in [1 .. 4 -> {0, 1, 128, 255}]}
             \cup {<< <<1, 2, 3, 4>>, <<0, 0, 255, 127>> >>}

EdgeLengths == {0, 1, 125, 126, 127, 255, 256, 65534, 65535, 65536, 65537,
                16777215, 16777216, 2147483647}

\* Hexadecimal digits in both cases; no half of a pair.
SomeUnicode ==
  (<<"0", "0", "0", "b">> :> "VT") @@ (<<"0", "0", "e", "9">> :> "eacute")
  @@ (<<"0", "0", "E", "9">> :> "eacute")
Pairs == "emoji" :> << <<"d", "8", "3", "d">>, <<"d", "e", "0", "0">> >>

\* What a reader of JSON could stumble over, and names of members.
Marks  == {Quote, Backslash, ":", "\n", "VT", "u", "n", "eacute", "emoji",
           "type", "delta", "code", "status_code"}
SomePhrases == UNION {[1 .. n -> Marks] : n \in 0 .. 2}
               \cup {<<Quote, Backslash, Quote>>, <<Quote, "delta", Quote, ":", Quote>>}

\* 0, 429, and around the largest number of 32 bits.
SomeStatuses ==
  {<<"0">>, <<"4", "2", "9">>,
   <<"4", "2", "9", "4", "9", "6", "7", "2", "9", "5">>,
   <<"4", "2", "9", "4", "9", "6", "7", "2", "9", "6">>,
   <<"9", "9", "9", "9", "9", "9", "9", "9", "9", "9", "9">>}
=============================================================================
