SPECIFICATION Spec
CONSTANTS
    Requests = {r1, r2, r3}
    Game = game
    Workers = {cloud}
    Cancellers = {game}
    ErrorCallback = TRUE
    Nobody = nobody
    None = none
    QueueCap = 2
    Finishers = {game, cloud}
    Routes = {"ANativeActivity_finish", "MainActivity.finish"}
INVARIANTS AnswersOpen NothingLost OneFrameLate
PROPERTIES AnswersWhole EveryPostAnswered FramesGoOn RequestLeaves
