--------------------------- MODULE InstanceGroups ---------------------------
(***************************************************************************)
(* How the load-balancing proxy reads its groups of endpoints from the     *)
(* options --prefiller-hosts, --prefiller-ports and their like             *)
(* (_parse_bracket_groups, _build_instance_groups): bare values are groups *)
(* of one, values between brackets form one group.                         *)
(***************************************************************************)
EXTENDS Naturals, Sequences

CONSTANTS Hosts, Ports,  \* what an operator can write
          BadPorts,      \* the ports among them that are not in 1..65535
          Zero, Local,   \* hosts: 0.0.0.0, and localhost that is taken for it
          MaxGroups, MaxRanks,  \* bounds: the groups, the endpoints of a group
          None           \* the options are not read

VARIABLES written,  \* what the operator meant, and how it is written
          groups    \* what the proxy makes of it: groups, or a ValueError (refused)
vars == <<written, groups>>

(***************************************************************************)
(* The reader.  A token is a value with or without a bracket at each end;  *)
(* <<>> is the value of a token that is only a bracket.                    *)
(***************************************************************************)
Token(open, value, close) == [open |-> open, value |-> value, close |-> close]

Failed(at) == [at EXCEPT !.error = TRUE]
\* A token outside a group: token[1:] is taken as it is, a bracket at its end included.
Outside(at, t) ==
    IF t.open THEN [at EXCEPT !.group = IF t.close THEN <<t>> ELSE t.value, !.inside = TRUE]
    ELSE IF t.close THEN Failed(at)
    ELSE [at EXCEPT !.groups = Append(@, t.value)]
\* Mutant: the value that carries the closing bracket is left out.
MutInside(at, t) ==
    IF t.open THEN Failed(at)
    ELSE IF ~t.close THEN [at EXCEPT !.group = @ \o t.value]
    ELSE IF at.group = <<>> THEN Failed(at)
    ELSE [at EXCEPT !.groups = Append(@, at.group), !.group = <<>>, !.inside = FALSE]
\* A token inside an open group.
Inside(at, t) ==
    IF t.open THEN Failed(at)
    ELSE IF ~t.close THEN [at EXCEPT !.group = @ \o t.value]
    ELSE IF at.group \o t.value = <<>> THEN Failed(at)
    ELSE [at EXCEPT !.groups = Append(@, at.group \o t.value), !.group = <<>>, !.inside = FALSE]
Read(at, t) == IF at.error THEN at
               ELSE IF at.inside THEN Inside(at, t) ELSE Outside(at, t)

\* The state in which the reader, in the state from, is after the tokens.
ReadAll(from, tokens) ==
    LET at[i \in 0..Len(tokens)] == IF i = 0 THEN from ELSE Read(at[i - 1], tokens[i])
    IN at[Len(tokens)]
\* _parse_bracket_groups
Parse(tokens) ==
    LET end == ReadAll([groups |-> <<>>, group |-> <<>>, inside |-> FALSE,
                        error |-> tokens = <<>>], tokens)
    IN [refused |-> end.error \/ end.inside, groups |-> end.groups]

Normal(e) == <<IF e[1] = Local THEN Zero ELSE e[1], e[2]>>

\* _build_instance_groups
Build(hosts, ports) ==
    LET h == Parse(hosts)
        p == Parse(ports)
        pairs == [g \in DOMAIN h.groups |->
                    [i \in DOMAIN h.groups[g] |-> <<h.groups[g][i], p.groups[g][i]>>]]
        refused ==
          \/ h.refused \/ p.refused
          \/ Len(h.groups) # Len(p.groups)
          \/ \E g \in DOMAIN h.groups : Len(h.groups[g]) # Len(p.groups[g])
          \/ \E g \in DOMAIN p.groups : \E i \in DOMAIN p.groups[g] : p.groups[g][i] \in BadPorts
          \/ \E g, k \in DOMAIN pairs : \E i \in DOMAIN pairs[g], j \in DOMAIN pairs[k] :
                <<g, i>> # <<k, j>> /\ Normal(pairs[g][i]) = Normal(pairs[k][j])
    IN [refused |-> refused, groups |-> IF refused THEN <<>> ELSE pairs]

(***************************************************************************)
(* The operator                                                            *)
(***************************************************************************)
Styles == {"spaced", "tight"}
\* A group of one is written bare; a bracket stands alone or at the value's side.
WriteGroup(values, style) ==
    LET n == Len(values) IN
    IF n = 1 THEN <<Token(FALSE, values, FALSE)>>
    ELSE IF style = "tight"
      THEN [i \in 1..n |-> Token(i = 1, <<values[i]>>, i = n)]
    ELSE <<Token(TRUE, <<>>, FALSE)>>
           \o [i \in 1..n |-> Token(FALSE, <<values[i]>>, FALSE)]
           \o <<Token(FALSE, <<>>, TRUE)>>
Write(gs, field, style) ==
    LET tokens[g \in 0..Len(gs)] ==
            IF g = 0 THEN <<>>
            ELSE tokens[g - 1] \o WriteGroup([i \in DOMAIN gs[g] |-> gs[g][i][field]], style)
    IN tokens[Len(gs)]

Groups == UNION {[1..n -> Hosts \X Ports] : n \in 1..MaxRanks}
Init == /\ written \in [groups : UNION {[1..n -> Groups] : n \in 1..MaxGroups},
                        hosts : Styles, ports : Styles]
        /\ groups = None
Start == /\ groups = None
         /\ groups' = Build(Write(written.groups, 1, written.hosts),
                            Write(written.groups, 2, written.ports))
         /\ UNCHANGED written
Next == Start

\* However the brackets are written, the proxy takes exactly the groups the
\* operator meant, in their order and with each host at its own port; and it
\* refuses them when a port is none or when two endpoints are the same one.
Places == UNION {{g} \X DOMAIN written.groups[g] : g \in DOMAIN written.groups}
At(place) == written.groups[place[1]][place[2]]
Sound == /\ \A a \in Places : At(a)[2] \notin BadPorts
         /\ \A a, b \in Places :
               /\ At(a)[2] = At(b)[2]
               /\ At(a)[1] = At(b)[1] \/ {At(a)[1], At(b)[1]} = {Zero, Local}
               => a = b
GroupsAreAsWritten ==
    groups # None => /\ groups.refused = ~Sound
                     /\ Sound => groups.groups = written.groups
=============================================================================
