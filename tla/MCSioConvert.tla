---------------------------- MODULE MCSioConvert ----------------------------
EXTENDS SioConvert

Names == <<"red", "green">>

Inner == <<"struct", << << <<"x", "5", "g">>, <<"number">> >>,
                      << <<"long", "inner", "name", "6", "g">>, <<"bytes">> >> >>>>
InnerValues == {<<"struct", << <<"number", 1>>, <<"bytes", <<"p">>>> >>>>, <<"struct", << <<"number", 2>>, <<"bytes", <<>>>> >>>>}

\* A type and some of its values.
Kinds ==
    { <<<<"number">>, {<<"number", 1>>, <<"number", 2>>}>>,
      <<<<"enum">>, {<<"enum", 0>>, <<"enum", 1>>}>>,
      <<<<"bytes">>, {<<"bytes", <<"p">>>>, <<"bytes", <<>>>>}>>,
      <<<<"set", <<"number">>>>, {<<"set", {}>>, <<"set", {<<"number", 1>>, <<"number", 2>>}>>}>>,
      <<Inner, InnerValues>>,
      <<<<"array", Inner>>, {<<"array", <<v, w>>>> : v \in InnerValues, w \in InnerValues}>>,
      <<<<"map", Inner>>, {<<"map", [k \in {<<"m">>, <<"m", "n">>} |-> v]>> : v \in InnerValues}>> }

StructOf(k, l) == <<"struct", << << <<"a", "x", "1", "g">>, k>>,
                              << <<"r", "g", "b", "2", "g">>, l>>, << <<"d">>, <<"number">> >> >>>>

SomeSamples ==
    {<<StructOf(k[1], l[1]), {<<"struct", <<v, w, <<"number", 7>>>>>> : v \in k[2], w \in l[2]}>>
        : k \in Kinds, l \in {l \in Kinds : l[1] \in {<<"bytes">>, Inner}}}
=============================================================================
