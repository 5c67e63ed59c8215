SPECIFICATION FairSpec
CONSTANTS
    TelegramConf <- MCTelegram
    MatrixConf <- MCMatrix
    SendsConf <- MCSends
    TriggerConf <- MCTrigger
    RegistryConf <- MCRegistry
    SlackConf <- MCSlack
    WebSocketConf <- MCWebSocket
    PlanningConf <- MCPlanning
    ExchangeConf <- MCExchange
    DispatchConf <- MCDispatch
    TurnConf <- MCTurn
    TranslationConf <- MCTranslation
    StreamConf <- MCStream
INVARIANTS TypeOK LossesAreAccountedFor OncePerDeliveryInOrder SendsAreCoherent SocketsAgree TriggersAgree RegistryAgrees
INVARIANTS FilesAgree AnswersFindTheirWay WithinBudget UpstreamsAccept StreamIsWhole
PROPERTIES LastMessageIsWhole LeavesWithPlan TurnIsConsistent EventuallyHandled
CHECK_DEADLOCK FALSE
