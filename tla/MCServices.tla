------------------------------ MODULE MCServices ------------------------------
(***************************************************************************)
(* The services that share no state, for TLC: one of them runs, the others *)
(* stay as they begin.                                                     *)
(***************************************************************************)
EXTENDS ShareLinks, LoginThrottle, OidcSignIn, AssistantBudget, FeedPoller, GbfsNetwork, GeocodeCache,
        SecretSettings, HeatMap, PlaceAreas,
        MCRequests, MCQuestions

CONSTANTS t1, r1, r2, a1, a2
VARIABLE service

access == <<share, throttle, oidc, secrets>>
sources == <<poller, gbfs, geocode, heat, areas>>
riders == <<assistant, journey, questions>>

SvcShare     == service = "share" /\ ShareNext
                /\ UNCHANGED <<service, throttle, oidc, secrets, sources, riders>>
SvcThrottle  == service = "throttle" /\ ThrottleNext
                /\ UNCHANGED <<service, share, oidc, secrets, sources, riders>>
SvcOidc      == service = "oidc" /\ OidcNext
                /\ UNCHANGED <<service, share, throttle, secrets, sources, riders>>
SvcSecrets   == service = "secrets" /\ SecretNext
                /\ UNCHANGED <<service, share, throttle, oidc, sources, riders>>
SvcPoller    == service = "poller" /\ PollerNext
                /\ UNCHANGED <<service, access, gbfs, geocode, heat, areas, riders>>
SvcGbfs      == service = "gbfs" /\ GbfsNext
                /\ UNCHANGED <<service, access, poller, geocode, heat, areas, riders>>
SvcGeocode   == service = "geocode" /\ GeocodeNext
                /\ UNCHANGED <<service, access, poller, gbfs, heat, areas, riders>>
SvcHeat      == service = "heat" /\ HeatNext
                /\ UNCHANGED <<service, access, poller, gbfs, geocode, areas, riders>>
SvcAreas     == service = "areas" /\ AreasNext
                /\ UNCHANGED <<service, access, poller, gbfs, geocode, heat, riders>>
SvcAssistant == service = "assistant" /\ AssistantNext
                /\ UNCHANGED <<service, access, sources, journey, questions>>
SvcPlan      == service = "plan" /\ PlanNext
                /\ UNCHANGED <<service, access, sources, assistant, questions>>
SvcQuestions == service = "questions" /\ QuestionsNext
                /\ UNCHANGED <<service, access, sources, assistant, journey>>

vars == <<service, access, sources, riders>>
Init ==
    /\ service \in {"share", "throttle", "oidc", "secrets", "poller", "gbfs", "geocode", "heat", "areas",
                    "assistant", "plan", "questions"}
    /\ ShareInit /\ ThrottleInit /\ OidcInit /\ SecretInit
    /\ PollerInit /\ GbfsInit /\ GeocodeInit /\ HeatInit /\ AreasInit
    /\ AssistantInit /\ PlanInit /\ QuestionsInit
    /\ service = "plan" \/ asked = CHOOSE a \in Asks : TRUE
Next ==
    \/ SvcShare \/ SvcThrottle \/ SvcOidc \/ SvcSecrets
    \/ SvcPoller \/ SvcGbfs \/ SvcGeocode \/ SvcHeat \/ SvcAreas
    \/ SvcAssistant \/ SvcPlan \/ SvcQuestions

\* The loops poll and refresh, days go by, files age, and a refresh of the
\* areas that has begun goes on.
Fairness ==
    /\ WF_vars(SvcPoller /\ PollAny)
    /\ WF_vars(SvcGbfs /\ Refresh)
    /\ WF_vars(SvcGbfs /\ (Skip \/ Load \/ Empty \/ \E marked \in BOOLEAN : Broken(marked)))
    /\ \A f \in {Files[i] : i \in DOMAIN Files} : SF_vars(SvcGbfs /\ Ages(f))
    /\ WF_vars(SvcAreas /\ CheckAreas) /\ WF_vars(SvcAreas /\ NextDay)
    /\ \A w \in Refreshers : WF_vars(SvcAreas /\ RefreshPlaceAreas(w))
Spec == Init /\ [][Next]_vars /\ Fairness

\* While the one that runs is the poller, a feed that lets us in again is read
\* again (rt.py:224); while it is a rental network, one that works again shows
\* its stock (gbfs.py:163).
SourcesRecover == (service = "poller" => ReadAgain) /\ (service = "gbfs" => StockFollows)
\* While it is the mirror of the named areas, what is published is what is
\* searched (places.py:237).
AreasFollow == service = "areas" => MirrorFollows

TwoCalls == {<<>>, <<"magic", "stops", "plan">>}
TwoTools == {"plan", "stops"}
WantedTtls == {0, 1, 9}
=============================================================================
