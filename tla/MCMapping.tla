----------------------------- MODULE MCMapping ------------------------------
EXTENDS Mapping

Op(op, qubits) == [op |-> op, qubits |-> qubits, blocks |-> <<>>]
Regions(op, blocks) == [op |-> op, qubits |-> <<>>, blocks |-> blocks]

Gates == {Op("gate", <<0, 1>>), Op("gate", <<0, 2>>), Op("gate", <<2, 1>>)}
Bodies == {<<>>} \cup {<<g>> : g \in Gates} \cup {<<g, h>> : g, h \in Gates}
Simple == {<<>>} \cup {<<g>> : g \in Gates}

Straight == {<<g, h, k>> : g, h, k \in Gates}
            \cup {<<g, Op("barrier", <<0, 1, 2>>), h>> : g, h \in Gates}
            \cup {<<Op("gate", <<1>>), g, Op("gate", <<0>>)>> : g \in Gates}
Looping == {<<Regions("for", <<b>>), g>> : b \in Bodies, g \in Gates}
           \cup {<<Regions("while", <<b, c>>), g>> : b, c \in Simple, g \in Gates}
           \cup {<<g, Regions("for", <<<<Regions("for", <<b>>)>> \o c>>)>> : b, c \in Simple, g \in Gates}
Branching == {<<Regions("if", <<b, c>>), g>> : b \in Bodies, c \in Simple, g \in Gates}
             \cup {<<Regions("switch", <<b, c, d>>), g>> : b, c, d \in Simple, g \in Gates}
             \cup {<<Regions("for", <<<<Regions("if", <<b, c>>), g>>>>)>> : b, c \in Simple, g \in Gates}
Refused == {<<Op("gate", <<0, 1, 2>>)>>, <<Regions("for", <<<<Op("alloc", <<0>>)>>>>)>>,
            <<Op("gate", <<0, 7>>)>>}

RECURSIVE Nested(_)
Nested(block) ==
    ToSet(block) \cup UNION {Nested(b) : b \in UNION {ToSet(i.blocks) : i \in ToSet(block)}}

MCPrograms == Straight \cup Looping \cup Branching \cup Refused
MCOperations == UNION {Nested(p) : p \in MCPrograms}
=============================================================================
